---- MODULE Spec2Model ----
(***************************************************************************)
(* A model of the bppt tree browser's core: the random-access line index   *)
(* (FileIndexer), the species-tree parser and serialiser (parseNewick,     *)
(* toNewick), the gene-tree parser (parseGeneTree), the tree geometry and  *)
(* the embedding of a gene tree in a species tree                          *)
(* (EmbeddedGeneTreeRenderer).                                             *)
(*                                                                         *)
(* Bytes are integers (10 = LF, 32 = space, 97 = 'a', 98 = 'b'); text is a *)
(* sequence of one-character strings.  Byte offsets are 0-based, as in the *)
(* source; sequences are 1-based, so byte offset k is element k + 1.       *)
(***************************************************************************)
EXTENDS Integers, Sequences, FiniteSets, TLC

VARIABLES
    file,           \* FileIndexer.file: the bytes of the source
    fileSize,       \* FileIndexer.fileSize
    skipFirstLine,  \* FileIndexer.skipFirstLine
    chunkSize,      \* CHUNK_SIZE of index(), scaled down to the model's files
    treeOffsets,    \* FileIndexer.treeOffsets
    offset,         \* local `offset` of index()
    indexed,        \* FileIndexer.indexed
    ipc,            \* where index() is: "new", "reading", "indexed", "failed"
    got,            \* the last getTree() call: its index, the range read, the result
    text,           \* the line handed to the parsers
    pres,           \* what parseNewick(text) did
    gres,           \* what parseGeneTree(text) did
    wres,           \* parseNewick of text with a sample index and a repeat count around it
    rres,           \* toNewick of the parsed tree, and parseNewick of that text
    gline,          \* the gene-tree line of the current sample
    appImap,        \* BPPTApp.imap, handed to the gene-tree parser and to the renderer
    geneTree,       \* EmbeddedGeneTreeRenderer.geneTree: <<>> (null) or <<GeneTree>>
    fixedScale,     \* EmbeddedGeneTreeRenderer.fixedScale: <<>> (null) or <<v>>
    populations,    \* EmbeddedGeneTreeRenderer.populations
    queries,        \* the findPopulationForSpecies calls of the last render, in order
    drawn,          \* how far the last render() went: "none", "notree", "small", "drawn"
    found,          \* the last findPopulationForSpecies call made on its own
    populationColorIndex,   \* EmbeddedGeneTreeRenderer.populationColorIndex: name -> slot
    nextColorIndex,         \* EmbeddedGeneTreeRenderer.nextColorIndex
    colorRequests,  \* the getPopulationColor calls of the last render: name and slot returned
    indexer,            \* BPPTApp.indexer: <<>> (null) or <<FileIndexer>>
    currentTreeIndex,   \* BPPTApp.currentTreeIndex
    currentNewick,      \* the text BPPTApp.currentTree was parsed from ('' for null)
    maxTreeDepth,       \* BPPTApp.maxTreeDepth
    geneTreeIndexers,   \* BPPTApp.geneTreeIndexers, in the order of locusNames
    currentLocusIndex,  \* BPPTApp.currentLocusIndex
    currentRendererName,    \* BPPTApp.currentRendererName
    navigationEnabled,  \* slider, buttons and tree input are not disabled
    sliderMax,          \* slider.max
    pending,            \* the reads of getTree() calls that have not come back
    load                \* where handleFileSelect is, and the state it started from

ivars == <<file, fileSize, skipFirstLine, chunkSize, treeOffsets, offset, indexed, ipc, got>>
pvars == <<text, pres, gres, wres, rres>>
evars == <<gline, appImap, geneTree, fixedScale, populations, queries, drawn, found,
           populationColorIndex, nextColorIndex, colorRequests>>
avars == <<indexer, currentTreeIndex, currentNewick, maxTreeDepth, geneTreeIndexers,
           currentLocusIndex, currentRendererName, navigationEnabled, sliderMax, pending,
           load>>
vars == <<ivars, pvars, evars, avars>>

(***************************************************************************)
(* Bounds of the model.                                                    *)
(***************************************************************************)
MaxFileLen == 4
MaxChunk == 3
MaxTextLen == 4

LF == 10
Bytes == {10, 32, 97, 98}

RECURSIVE SeqsUpTo(_, _)
SeqsUpTo(S, n) ==
    IF n = 0 THEN {<<>>}
    ELSE LET shorter == SeqsUpTo(S, n - 1)
         IN  shorter \cup {Append(s, x) : s \in {t \in shorter : Len(t) = n - 1}, x \in S}

(***************************************************************************)
(* Blob.slice(start, end) on the source, and Blob.text() on ASCII bytes.   *)
(***************************************************************************)
Slice(f, start, end) == SubSeq(f, start + 1, end)

DecodeByte(b) ==
    CASE b = 10 -> "\n"
      [] b = 32 -> " "
      [] b = 97 -> "a"
      [] b = 98 -> "b"

Decode(bs) == [k \in 1..Len(bs) |-> DecodeByte(bs[k])]

IsSpace(c) == c \in {" ", "\n", "\t", "\r"}

RECURSIVE TrimLeft(_)
TrimLeft(s) == IF s # <<>> /\ IsSpace(Head(s)) THEN TrimLeft(Tail(s)) ELSE s

RECURSIVE TrimRight(_)
TrimRight(s) ==
    IF s # <<>> /\ IsSpace(s[Len(s)]) THEN TrimRight(SubSeq(s, 1, Len(s) - 1)) ELSE s

\* String.prototype.trim
Trim(s) == TrimRight(TrimLeft(s))

Min(a, b) == IF a < b THEN a ELSE b

(***************************************************************************)
(* FileIndexer.index(): the scan of one chunk.  `bytes` is the chunk read  *)
(* at byte offset `base`; the result is the offsets the loop pushes, in    *)
(* order: offset + i + 1 for every i with bytes[i] = 10, when it lies      *)
(* before the end of the file.                                             *)
(***************************************************************************)
ChunkOffsetsDropsLastByte(bytes, base, size) ==
    LET IsStart(e) == bytes[e - base] = LF /\ e < size
    IN  SelectSeq([k \in 1..(Len(bytes) - 1) |-> base + k], IsStart)

ChunkOffsetsOffByOne(bytes, base, size) ==
    LET IsStart(e) == bytes[e - base + 1] = LF /\ e < size
    IN  SelectSeq([k \in 1..Len(bytes) |-> base + k - 1], IsStart)

ChunkOffsets(bytes, base, size) ==
    LET IsStart(e) == bytes[e - base] = LF /\ e < size
    IN  SelectSeq([k \in 1..Len(bytes) |-> base + k], IsStart)

\* "Remove any trailing empty line offset"
PopTrailingNever(offs, size) == offs

PopTrailing(offs, size) ==
    IF Len(offs) > 0 /\ offs[Len(offs)] >= size
    THEN SubSeq(offs, 1, Len(offs) - 1)
    ELSE offs

\* "Skip first line if requested"
SkipFirstNever(offs, skip) == offs

SkipFirst(offs, skip) ==
    IF skip /\ Len(offs) > 0 THEN Tail(offs) ELSE offs

\* The code of index() after its loop.
Finish(offs, size, skip) == SkipFirst(PopTrailing(offs, size), skip)

(***************************************************************************)
(* FileIndexer.getTreeCount() and getTree().                               *)
(***************************************************************************)
getTreeCount == Len(treeOffsets)

EndOffsetAlwaysEof(offs, index, size) == size

EndOffset(offs, index, size) ==
    IF index + 1 < Len(offs) THEN offs[index + 2] ELSE size

getTree(offs, f, size, index) ==
    IF index < 0 \/ index >= Len(offs)
    THEN [index |-> index, inRange |-> FALSE, start |-> -1, end |-> -1, text |-> <<>>]
    ELSE LET startOffset == offs[index + 1]
             endOffset == EndOffset(offs, index, size)
         IN  [index |-> index, inRange |-> TRUE, start |-> startOffset, end |-> endOffset,
              text |-> Trim(Decode(Slice(f, startOffset, endOffset)))]

\* `got` before any call.  `at` records where index() was when the call was
\* made, `r` what the call did.
NoCall ==
    [at |-> "none", rejected |-> FALSE,
     r |-> [index |-> -1, inRange |-> FALSE, start |-> -1, end |-> -1, text |-> <<>>]]

(***************************************************************************)
(* Text helpers of the parsers.  Positions are 1-based: the source's        *)
(* `pos < str.length` is `p <= Len(s)` here.                               *)
(***************************************************************************)
Digits == {"0", "1", "2", "3", "4", "5", "6", "7", "8", "9"}
DigitChars == <<"0", "1", "2", "3", "4", "5", "6", "7", "8", "9">>
DigitVal(c) == (CHOOSE i \in 1..Len(DigitChars) : DigitChars[i] = c) - 1

\* The first position q >= p that is past the end of s or holds a
\* character outside C.
RECURSIVE SkipIn(_, _, _)
SkipIn(s, p, C) == IF p <= Len(s) /\ s[p] \in C THEN SkipIn(s, p + 1, C) ELSE p

\* The first position q >= p that is past the end of s or holds a
\* character of D.
RECURSIVE SkipUntil(_, _, _)
SkipUntil(s, p, D) == IF p <= Len(s) /\ s[p] \notin D THEN SkipUntil(s, p + 1, D) ELSE p

Ws == {" ", "\n", "\t", "\r"}

\* skipWhitespace()
skipWhitespace(s, p) == SkipIn(s, p, Ws)

(***************************************************************************)
(* Numbers.  A number is an integer count of 10^-6 units (the precision of *)
(* toFixed(6)); NaN is the empty sequence and a number v is <<v>>.         *)
(* parseFloat reads the longest numeric prefix: an optional sign, digits,  *)
(* and an optional fraction.  Exponents and "Infinity" need characters     *)
(* that no input of the model holds.                                       *)
(***************************************************************************)
UNIT == 1000000
FracDigits == 6
NaN == <<>>

RECURSIVE DigitsValue(_)
DigitsValue(ds) ==
    IF ds = <<>> THEN 0
    ELSE 10 * DigitsValue(SubSeq(ds, 1, Len(ds) - 1)) + DigitVal(ds[Len(ds)])

RECURSIVE Pow10(_)
Pow10(n) == IF n = 0 THEN 1 ELSE 10 * Pow10(n - 1)

FracValue(ds) ==
    LET kept == SubSeq(ds, 1, Min(Len(ds), FracDigits))
    IN  DigitsValue(kept) * Pow10(FracDigits - Len(kept))

parseFloat(str) ==
    LET t == TrimLeft(str)
        signed == t # <<>> /\ t[1] \in {"-", "+"}
        p == IF signed THEN 2 ELSE 1
        a == SkipIn(t, p, Digits)
        hasDot == a <= Len(t) /\ t[a] = "."
        b == IF hasDot THEN SkipIn(t, a + 1, Digits) ELSE a
        int == SubSeq(t, p, a - 1)
        frac == IF hasDot THEN SubSeq(t, a + 1, b - 1) ELSE <<>>
        v == DigitsValue(int) * UNIT + FracValue(frac)
    IN  IF int = <<>> /\ frac = <<>> THEN NaN
        ELSE IF signed /\ t[1] = "-" THEN <<0 - v>> ELSE <<v>>

(***************************************************************************)
(* cleanNewick: the three replacements and the trim.                       *)
(***************************************************************************)
\* replace(/^\s*\d+\s*→\s*/, '')
StripArrowPrefixNever(s) == s

StripArrowPrefix(s) ==
    LET a == SkipIn(s, 1, Ws)
        b == SkipIn(s, a, Digits)
        c == SkipIn(s, b, Ws)
    IN  IF b > a /\ c <= Len(s) /\ s[c] = "→"
        THEN SubSeq(s, SkipIn(s, c + 1, Ws), Len(s))
        ELSE s

\* replace(/^\s*\d+\s+(?=\()/, '')
StripNumberPrefix(s) ==
    LET a == SkipIn(s, 1, Ws)
        b == SkipIn(s, a, Digits)
        c == SkipIn(s, b, Ws)
    IN  IF b > a /\ c > b /\ c <= Len(s) /\ s[c] = "("
        THEN SubSeq(s, c, Len(s))
        ELSE s

\* Does s from position p on match \s*\d+\s*$ ?
IsCountSuffix(s, p) ==
    LET a == SkipIn(s, p, Ws)
        b == SkipIn(s, a, Digits)
    IN  b > a /\ SkipIn(s, b, Ws) = Len(s) + 1

\* replace(/;\s*\d+\s*$/, ';')
StripCount(s) ==
    LET hits == {i \in 1..Len(s) : s[i] = ";" /\ IsCountSuffix(s, i + 1)}
    IN  IF hits = {} THEN s
        ELSE SubSeq(s, 1, CHOOSE i \in hits : \A j \in hits : i <= j)

cleanNewick(newickStr) == Trim(StripCount(StripNumberPrefix(StripArrowPrefix(newickStr))))

(***************************************************************************)
(* parseNewick.  A node is [name, branchLength, theta, children], theta   *)
(* being NaN (null) or <<v>>.  parseNode returns the node, the position    *)
(* after it, and `hang`: the `while (true)` loop of the children repeats  *)
(* without end when a child parse consumes nothing and the next character  *)
(* is neither ',' nor ')' (the loop then pushes the same empty child for   *)
(* ever and parseNewick does not return).                                  *)
(***************************************************************************)
NameStops == {"#", ",", ":", "(", ")", ";"}
ValueStops == {",", ":", "(", ")", ";"}

createTreeNode == [name |-> <<>>, branchLength |-> 0, theta |-> NaN, children |-> <<>>]

\* parseNode from "Parse name (if any)" on: the label after the children.
parseLabel(s, p, children) ==
    LET p1 == skipWhitespace(s, p)
        p2 == SkipUntil(s, p1, NameStops)
        name == Trim(SubSeq(s, p1, p2 - 1))
        p3 == skipWhitespace(s, p2)
        hasTheta == p3 <= Len(s) /\ s[p3] = "#"
        p4 == IF hasTheta THEN SkipUntil(s, p3 + 1, ValueStops) ELSE p3
        theta == IF hasTheta THEN parseFloat(Trim(SubSeq(s, p3 + 1, p4 - 1))) ELSE NaN
        p5 == skipWhitespace(s, p4)
        hasLength == p5 <= Len(s) /\ s[p5] = ":"
        p6 == IF hasLength THEN SkipUntil(s, p5 + 1, ValueStops) ELSE p5
        length == IF hasLength THEN parseFloat(Trim(SubSeq(s, p5 + 1, p6 - 1))) ELSE NaN
    IN  [node |-> [name |-> name,
                   branchLength |-> IF length = NaN THEN 0 ELSE length[1],
                   theta |-> theta,
                   children |-> children],
         pos |-> p6,
         hang |-> FALSE]

RECURSIVE parseNode(_, _)
RECURSIVE parseChildLoop(_, _, _)

\* The body of `while (true)` with `acc` the children pushed so far.
parseChildLoop(s, p, acc) ==
    LET p0 == skipWhitespace(s, p)
        child == parseNode(s, p0)
        kids == Append(acc, child.node)
        q == skipWhitespace(s, child.pos)
    IN  IF child.hang THEN [children |-> kids, pos |-> q, hang |-> TRUE]
        ELSE IF q > Len(s) THEN [children |-> kids, pos |-> q, hang |-> FALSE]
        ELSE IF s[q] = "," THEN parseChildLoop(s, q + 1, kids)
        ELSE IF s[q] = ")" THEN [children |-> kids, pos |-> q + 1, hang |-> FALSE]
        ELSE IF q = p0 THEN [children |-> kids, pos |-> q, hang |-> TRUE]
        ELSE parseChildLoop(s, q, kids)

parseNode(s, p) ==
    LET p0 == skipWhitespace(s, p)
    IN  IF p0 <= Len(s) /\ s[p0] = "("
        THEN LET loop == parseChildLoop(s, p0 + 1, <<>>)
             IN  IF loop.hang
                 THEN [node |-> createTreeNode, pos |-> loop.pos, hang |-> TRUE]
                 ELSE parseLabel(s, loop.pos, loop.children)
        ELSE parseLabel(s, p0, <<>>)

\* replace(/;$/, '')
StripSemicolon(s) == IF s # <<>> /\ s[Len(s)] = ";" THEN SubSeq(s, 1, Len(s) - 1) ELSE s

\* What a call of a parser does: it returns null, returns a tree, or does
\* not return.  Neither parser lets an exception out (both wrap the
\* recursive parse in try/catch and nothing before it throws).
Null == [kind |-> "null"]
Tree(t) == [kind |-> "tree", tree |-> t]
Hang == [kind |-> "hang"]
Pending == [kind |-> "pending"]

parseNewick(newickStr) ==
    LET cleaned == cleanNewick(newickStr)
    IN  IF cleaned = <<>> \/ cleaned = <<";">> THEN Null
        ELSE LET r == parseNode(Trim(StripSemicolon(cleaned)), 1)
             IN  IF r.hang THEN Hang ELSE Tree(r.node)

(***************************************************************************)
(* toNewick.  Number.toFixed(6) of a count v of 10^-6 units is the sign,   *)
(* the integer part, a point and six decimals.                             *)
(***************************************************************************)
RECURSIVE NatText(_)
NatText(n) ==
    IF n < 10 THEN <<DigitChars[n + 1]>>
    ELSE NatText(n \div 10) \o <<DigitChars[(n % 10) + 1]>>

toFixed(v) ==
    LET a == IF v < 0 THEN 0 - v ELSE v
    IN  (IF v < 0 THEN <<"-">> ELSE <<>>)
        \o NatText(a \div UNIT) \o <<".">>
        \o [k \in 1..FracDigits |-> DigitChars[((a \div Pow10(FracDigits - k)) % 10) + 1]]

\* Array.prototype.join
RECURSIVE Join(_, _)
Join(parts, sep) ==
    IF parts = <<>> THEN <<>>
    ELSE IF Len(parts) = 1 THEN parts[1]
    ELSE parts[1] \o sep \o Join(Tail(parts), sep)

RECURSIVE toNewick(_)

toNewickDropsTheta(node) ==
    (IF Len(node.children) > 0
     THEN <<"(">> \o Join([k \in 1..Len(node.children) |-> toNewick(node.children[k])], <<",">>)
          \o <<")">>
     ELSE <<>>)
    \o node.name
    \o (IF node.branchLength > 0 THEN <<":">> \o toFixed(node.branchLength) ELSE <<>>)

toNewick(node) ==
    (IF Len(node.children) > 0
     THEN <<"(">> \o Join([k \in 1..Len(node.children) |-> toNewick(node.children[k])], <<",">>)
          \o <<")">>
     ELSE <<>>)
    \o node.name
    \o (IF node.theta # NaN THEN <<" ", "#">> \o toFixed(node.theta[1]) ELSE <<>>)
    \o (IF node.branchLength > 0 THEN <<":">> \o toFixed(node.branchLength) ELSE <<>>)

(***************************************************************************)
(* parseGeneTree.  A gene-tree node is [name, branchLength, children,      *)
(* species, individual]; an undefined species or individual is <<>>, a     *)
(* defined one <<text>>.  A node-or-null is <<>> (null) or <<node>>.       *)
(* An Imap is [given, map]: `given` is FALSE when the argument is omitted. *)
(***************************************************************************)
NoImap == [given |-> FALSE, map |-> <<>>]

UpperLetters == <<"A", "B", "C", "D", "E", "F", "G", "H", "I", "J", "K", "L", "M",
                  "N", "O", "P", "Q", "R", "S", "T", "U", "V", "W", "X", "Y", "Z">>
LowerLetters == <<"a", "b", "c", "d", "e", "f", "g", "h", "i", "j", "k", "l", "m",
                  "n", "o", "p", "q", "r", "s", "t", "u", "v", "w", "x", "y", "z">>
IsUpperLetter(c) == \E i \in 1..Len(UpperLetters) : UpperLetters[i] = c

\* String.prototype.toUpperCase
toUpperCase(s) ==
    [k \in 1..Len(s) |->
        IF \E i \in 1..Len(LowerLetters) : LowerLetters[i] = s[k]
        THEN UpperLetters[CHOOSE i \in 1..Len(LowerLetters) : LowerLetters[i] = s[k]]
        ELSE s[k]]

\* Does the literal `lit` occur in s at position p ?
OccursAt(s, p, lit) ==
    /\ p >= 1
    /\ p + Len(lit) - 1 <= Len(s)
    /\ SubSeq(s, p, p + Len(lit) - 1) = lit

\* String.prototype.indexOf for one character, 1-based; 0 when absent.
indexOf(s, c) ==
    IF \E i \in 1..Len(s) : s[i] = c
    THEN CHOOSE i \in 1..Len(s) : s[i] = c /\ \A j \in 1..(i - 1) : s[j] # c
    ELSE 0

NumberChars == Digits \cup {"."}
LengthChars == Digits \cup {".", "e", "E", "+", "-"}

\* match(/\[TH=([0-9.]+),\s*TL=([0-9.]+)\]/): the two captures, or <<>>.
annotationMatch(s) ==
    LET Try(p) ==
            LET a == p + 4
                b == SkipIn(s, a, NumberChars)
                c == SkipIn(s, b + 1, Ws)
                d == c + 3
                e == SkipIn(s, d, NumberChars)
            IN  IF /\ OccursAt(s, p, <<"[", "T", "H", "=">>)
                   /\ b > a
                   /\ OccursAt(s, b, <<",">>)
                   /\ OccursAt(s, c, <<"T", "L", "=">>)
                   /\ e > d
                   /\ OccursAt(s, e, <<"]">>)
                THEN <<SubSeq(s, a, b - 1), SubSeq(s, d, e - 1)>>
                ELSE <<>>
        hits == {p \in 1..Len(s) : Try(p) # <<>>}
    IN  IF hits = {} THEN <<>> ELSE Try(CHOOSE p \in hits : \A q \in hits : p <= q)

\* replace(/\s*\[TH=[^\]]+\].*$/, '').trim()
StripAnnotation(s) ==
    LET hits == {p \in 1..Len(s) :
                    /\ OccursAt(s, p, <<"[", "T", "H", "=">>)
                    /\ p + 4 <= Len(s)
                    /\ s[p + 4] # "]"
                    /\ \E q \in (p + 5)..Len(s) : s[q] = "]"}
    IN  IF hits = {} THEN Trim(s)
        ELSE Trim(SubSeq(s, 1, (CHOOSE p \in hits : \A q \in hits : p <= q) - 1))

\* replace(/;\s*\d*\s*$/, '').trim()
StripSemicolonCount(s) ==
    LET IsTail(p) ==
            LET a == SkipIn(s, p, Ws)
                b == SkipIn(s, a, Digits)
            IN  SkipIn(s, b, Ws) = Len(s) + 1
        hits == {i \in 1..Len(s) : s[i] = ";" /\ IsTail(i + 1)}
    IN  IF hits = {} THEN Trim(s)
        ELSE Trim(SubSeq(s, 1, (CHOOSE i \in hits : \A j \in hits : i <= j) - 1))

\* parseFloat(x) || 0
FloatOrZero(str) == LET v == parseFloat(str) IN IF v = NaN THEN 0 ELSE v[1]

\* match(/:([0-9.eE+-]+)/)
parseBranchLength(str) ==
    LET hits == {i \in 1..Len(str) :
                    str[i] = ":" /\ i + 1 <= Len(str) /\ str[i + 1] \in LengthChars}
    IN  IF hits = {} THEN 0
        ELSE LET i == CHOOSE i \in hits : \A j \in hits : i <= j
             IN  FloatOrZero(SubSeq(str, i + 1, SkipIn(str, i + 1, LengthChars) - 1))

\* The species code is the second segment when it is at most 2 characters,
\* upper case and alphabetic; otherwise the first.
SecondIsSpeciesAnyLength(part2) ==
    /\ part2 = toUpperCase(part2)
    /\ part2 # <<>>
    /\ \A k \in 1..Len(part2) : IsUpperLetter(part2[k])

SecondIsSpecies(part2) ==
    /\ Len(part2) <= 2
    /\ part2 = toUpperCase(part2)
    /\ part2 # <<>>
    /\ \A k \in 1..Len(part2) : IsUpperLetter(part2[k])

parseLeafNode(str, imap) ==
    LET colonIdx == indexOf(str, ":")
        name == IF colonIdx # 0 THEN Trim(SubSeq(str, 1, colonIdx - 1)) ELSE Trim(str)
        branchLength ==
            IF colonIdx # 0 THEN FloatOrZero(SubSeq(str, colonIdx + 1, Len(str))) ELSE 0
        caretIdx == indexOf(name, "^")
        part1 == SubSeq(name, 1, caretIdx - 1)
        part2 == SubSeq(name, caretIdx + 1, Len(name))
        species ==
            IF caretIdx # 0
            THEN (IF SecondIsSpecies(part2) THEN <<part2>> ELSE <<part1>>)
            ELSE IF imap.given /\ name \in DOMAIN imap.map THEN <<imap.map[name]>>
            ELSE <<>>
        individual ==
            IF caretIdx # 0
            THEN (IF SecondIsSpecies(part2) THEN <<part1>> ELSE <<part2>>)
            ELSE IF imap.given THEN <<name>>
            ELSE <<>>
    IN  [name |-> name, branchLength |-> branchLength, children |-> <<>>,
         species |-> species, individual |-> individual]

\* "Find the matching closing parenthesis": its 1-based position, or 0
\* (closeIdx === -1).
RECURSIVE findClose(_, _, _)
findClose(s, i, depth) ==
    IF i > Len(s) THEN 0
    ELSE IF s[i] = "(" THEN findClose(s, i + 1, depth + 1)
    ELSE IF s[i] = ")" THEN (IF depth - 1 = 0 THEN i ELSE findClose(s, i + 1, depth - 1))
    ELSE findClose(s, i + 1, depth)

RECURSIVE parseNewickNode(_, _)
RECURSIVE parseChildrenFrom(_, _, _, _, _, _)

\* The loop of parseChildren at index i (1-based, running to Len(s) + 1).
parseChildrenFrom(s, imap, i, depth, start, acc) ==
    IF i > Len(s) + 1 THEN acc
    ELSE IF i <= Len(s) /\ s[i] = "(" THEN parseChildrenFrom(s, imap, i + 1, depth + 1, start, acc)
    ELSE IF i <= Len(s) /\ s[i] = ")" THEN parseChildrenFrom(s, imap, i + 1, depth - 1, start, acc)
    ELSE IF (i = Len(s) + 1 \/ s[i] = ",") /\ depth = 0
    THEN LET childStr == Trim(SubSeq(s, start, i - 1))
             child == IF childStr # <<>> THEN parseNewickNode(childStr, imap) ELSE <<>>
         IN  parseChildrenFrom(s, imap, i + 1, depth, i + 1, acc \o child)
    ELSE parseChildrenFrom(s, imap, i + 1, depth, start, acc)

parseChildren(str, imap) == parseChildrenFrom(str, imap, 1, 0, 1, <<>>)

parseNewickNode(str0, imap) ==
    LET str == Trim(str0)
    IN  IF str = <<>> THEN <<>>
        ELSE IF str[1] = "("
        THEN LET closeIdx == findClose(str, 1, 0)
             IN  IF closeIdx = 0 THEN <<>>
                 ELSE <<[name |-> <<>>,
                         branchLength |-> parseBranchLength(SubSeq(str, closeIdx + 1, Len(str))),
                         children |-> parseChildren(SubSeq(str, 2, closeIdx - 1), imap),
                         species |-> <<>>,
                         individual |-> <<>>]>>
        ELSE <<parseLeafNode(str, imap)>>

parseGeneTree(newickStr, imap) ==
    LET stripped == StripArrowPrefix(newickStr)
        annotation == annotationMatch(stripped)
        treeStr == StripSemicolonCount(StripAnnotation(stripped))
        root == parseNewickNode(treeStr, imap)
    IN  IF treeStr = <<>> \/ root = <<>> THEN Null
        ELSE Tree([root |-> root[1],
                   treeHeight |-> IF annotation = <<>> THEN <<0>> ELSE parseFloat(annotation[1]),
                   treeLength |-> IF annotation = <<>> THEN <<0>> ELSE parseFloat(annotation[2])])

(***************************************************************************)
(* Tree geometry.  Species-tree and gene-tree nodes both carry             *)
(* branchLength and children, and a leaf is a node without children.       *)
(***************************************************************************)
Max(a, b) == IF a > b THEN a ELSE b

\* The sign of a product or a quotient is the product of the signs.
Sign(x) == IF x > 0 THEN 1 ELSE IF x < 0 THEN -1 ELSE 0

\* Math.max(...xs) and Math.min(...xs) of a non-empty list
RECURSIVE MaxOf(_)
MaxOf(xs) == IF Len(xs) = 1 THEN xs[1] ELSE Max(xs[1], MaxOf(Tail(xs)))

RECURSIVE MinOf(_)
MinOf(xs) == IF Len(xs) = 1 THEN xs[1] ELSE Min(xs[1], MinOf(Tail(xs)))

RECURSIVE getDepth(_)

getDepthWithoutOwnBranch(node) ==
    IF Len(node.children) = 0 THEN node.branchLength
    ELSE MaxOf([k \in 1..Len(node.children) |-> getDepth(node.children[k])])

getDepth(node) ==
    IF Len(node.children) = 0 THEN node.branchLength
    ELSE node.branchLength + MaxOf([k \in 1..Len(node.children) |-> getDepth(node.children[k])])

RECURSIVE Flatten(_)
Flatten(xss) == IF xss = <<>> THEN <<>> ELSE Head(xss) \o Flatten(Tail(xss))

RECURSIVE getLeaves(_)
getLeaves(node) ==
    IF Len(node.children) = 0 THEN <<node.name>>
    ELSE Flatten([k \in 1..Len(node.children) |-> getLeaves(node.children[k])])

RECURSIVE getGeneTreeDepth(_)
getGeneTreeDepth(node) ==
    IF Len(node.children) = 0 THEN node.branchLength
    ELSE node.branchLength
         + MaxOf([k \in 1..Len(node.children) |-> getGeneTreeDepth(node.children[k])])

RECURSIVE getGeneNodeAge(_)

getGeneNodeAgeWithoutBranch(node) ==
    IF Len(node.children) = 0 THEN 0
    ELSE getGeneNodeAge(node.children[1])

getGeneNodeAgeByLastChild(node) ==
    IF Len(node.children) = 0 THEN 0
    ELSE LET lastChild == node.children[Len(node.children)]
         IN  getGeneNodeAge(lastChild) + lastChild.branchLength

getGeneNodeAge(node) ==
    IF Len(node.children) = 0 THEN 0
    ELSE LET firstChild == node.children[1]
         IN  getGeneNodeAge(firstChild) + firstChild.branchLength

(***************************************************************************)
(* EmbeddedGeneTreeRenderer.  A population is [name, leftX, rightX,        *)
(* startTime, endTime, species]; times are counts of 10^-6 units and       *)
(* species is a set of names.  Of the drawing only the coordinates that    *)
(* reach the population records are kept; the divisions are exact for the  *)
(* canvas widths and the leaf counts of the model.                         *)
(***************************************************************************)
style == [marginLeft |-> 60, marginRight |-> 100, marginTop |-> 50, marginBottom |-> 50]

\* findPopulationForSpecies: <<>> for null, <<pop>> for a population.
PopSize(pops, k) == Cardinality(pops[k].species)

findPopulationIgnoringStart(pops, speciesSet, time) ==
    LET Q == {k \in 1..Len(pops) : time <= pops[k].endTime /\ speciesSet \subseteq pops[k].species}
    IN  IF Q = {} THEN <<>>
        ELSE <<pops[CHOOSE k \in Q : \A j \in Q :
                        PopSize(pops, k) < PopSize(pops, j)
                        \/ (PopSize(pops, k) = PopSize(pops, j) /\ k <= j)]>>

findPopulationIgnoringEnd(pops, speciesSet, time) ==
    LET Q == {k \in 1..Len(pops) : pops[k].startTime <= time /\ speciesSet \subseteq pops[k].species}
    IN  IF Q = {} THEN <<>>
        ELSE <<pops[CHOOSE k \in Q : \A j \in Q :
                        PopSize(pops, k) < PopSize(pops, j)
                        \/ (PopSize(pops, k) = PopSize(pops, j) /\ k <= j)]>>

findPopulationKeepingLast(pops, speciesSet, time) ==
    LET Q == {k \in 1..Len(pops) :
                 /\ pops[k].startTime <= time /\ time <= pops[k].endTime
                 /\ speciesSet \subseteq pops[k].species}
    IN  IF Q = {} THEN <<>>
        ELSE <<pops[CHOOSE k \in Q : \A j \in Q :
                        PopSize(pops, k) < PopSize(pops, j)
                        \/ (PopSize(pops, k) = PopSize(pops, j) /\ k >= j)]>>

\* The loop of findPopulationForSpecies from population k on; bestPop null
\* (bestSize Infinity) is <<>>.
RECURSIVE findPopulationFrom(_, _, _, _, _)
findPopulationFrom(pops, speciesSet, time, k, bestPop) ==
    IF k > Len(pops) THEN bestPop
    ELSE LET pop == pops[k]
             outside == time < pop.startTime \/ time > pop.endTime
             containsAll == speciesSet \subseteq pop.species
             smaller == bestPop = <<>> \/ Cardinality(pop.species) < Cardinality(bestPop[1].species)
         IN  findPopulationFrom(pops, speciesSet, time, k + 1,
                                IF ~outside /\ containsAll /\ smaller THEN <<pop>> ELSE bestPop)

findPopulationForSpecies(pops, speciesSet, time) ==
    findPopulationFrom(pops, speciesSet, time, 1, <<>>)

\* imap.get(name) || name, or the text before the caret
getSpeciesFromName(name, im) ==
    LET caretIdx == indexOf(name, "^")
    IN  IF caretIdx # 0 THEN SubSeq(name, 1, caretIdx - 1)
        ELSE IF name \in DOMAIN im.map /\ im.map[name] # <<>> THEN im.map[name]
        ELSE name

\* node.species || this.getSpeciesFromName(node.name)
LeafSpecies(node, im) ==
    IF node.species # <<>> /\ node.species[1] # <<>> THEN node.species[1]
    ELSE getSpeciesFromName(node.name, im)

\* POPULATION_COLORS.length
PopulationColorsLength == 8

\* The colour table is [index, next, requests]: populationColorIndex,
\* nextColorIndex and the calls answered so far, each with the slot whose
\* colour was returned.
getPopulationColor(table, populationName) ==
    LET assigned == IF populationName \in DOMAIN table.index
                    THEN table
                    ELSE [table EXCEPT !.index = (populationName :> table.next) @@ table.index,
                                       !.next = (table.next + 1) % PopulationColorsLength]
        idx == assigned.index[populationName]
    IN  [assigned EXCEPT !.requests = Append(table.requests, [name |-> populationName, slot |-> idx])]

resetPopulationColorsKeepsCounter(table) == [index |-> <<>>, next |-> table.next, requests |-> <<>>]

resetPopulationColors(table) == [index |-> <<>>, next |-> 0, requests |-> <<>>]

\* The getPopulationColor calls of drawSpeciesTubes: one per population it
\* pushes, in the order of the pushes, with the population's name.
RECURSIVE requestColors(_, _)
requestColors(table, pops) ==
    IF pops = <<>> THEN table
    ELSE requestColors(getPopulationColor(table, Head(pops).name), Tail(pops))

\* speciesPositions of render(): the centre x and the width of every tube.
\* A later leaf of the same name replaces an earlier one (Map.set).
speciesPositions(speciesLeaves, width) ==
    LET nSpecies == Len(speciesLeaves)
        availableWidth == width - style.marginLeft - style.marginRight
        speciesSpacing == availableWidth \div Max(nSpecies - 1, 1)
        xOffset == style.marginLeft + (IF nSpecies = 1 THEN availableWidth \div 2 ELSE 0)
        tubeWidth == Max(20, (speciesSpacing * 6) \div 10)
        halfTube == tubeWidth \div 2
        insetXOffset == xOffset + halfTube
        insetSpacing == IF nSpecies > 1 THEN (availableWidth - tubeWidth) \div (nSpecies - 1) ELSE 0
        last(name) == CHOOSE i \in 1..nSpecies :
                          speciesLeaves[i] = name /\ \A j \in (i + 1)..nSpecies : speciesLeaves[j] # name
    IN  [name \in {speciesLeaves[i] : i \in 1..nSpecies} |->
            [x |-> IF nSpecies > 1 THEN insetXOffset + (last(name) - 1) * insetSpacing ELSE xOffset,
             width |-> tubeWidth]]

\* `anc_${leftX}_${rightX}`
AncName(leftX, rightX) == <<"a", "n", "c", "_">> \o NatText(leftX) \o <<"_">> \o NatText(rightX)

\* drawSpeciesTubes: the populations it pushes, in order, and what it
\* returns (leftX, rightX, species).
RECURSIVE drawSpeciesTubes(_, _, _)

drawSpeciesTubesStartAtTop(node, positions, nodeAge) ==
    IF Len(node.children) = 0
    THEN IF node.name \notin DOMAIN positions
         THEN [pops |-> <<>>, leftX |-> 0, rightX |-> 0, species |-> {}]
         ELSE LET pos == positions[node.name]
                  halfWidth == pos.width \div 2
              IN  [pops |-> <<[name |-> node.name,
                               leftX |-> pos.x - halfWidth,
                               rightX |-> pos.x + halfWidth,
                               startTime |-> 0,
                               endTime |-> nodeAge,
                               species |-> {node.name}]>>,
                   leftX |-> pos.x - halfWidth,
                   rightX |-> pos.x + halfWidth,
                   species |-> {node.name}]
    ELSE LET childAge == nodeAge - node.branchLength
             childResults == [k \in 1..Len(node.children) |->
                                 drawSpeciesTubes(node.children[k], positions, childAge)]
             leftX == MinOf([k \in 1..Len(childResults) |-> childResults[k].leftX])
             rightX == MaxOf([k \in 1..Len(childResults) |-> childResults[k].rightX])
             species == UNION {childResults[k].species : k \in 1..Len(childResults)}
             popName == IF node.name # <<>> THEN node.name ELSE AncName(leftX, rightX)
         IN  [pops |-> Flatten([k \in 1..Len(childResults) |-> childResults[k].pops])
                       \o <<[name |-> popName,
                             leftX |-> leftX,
                             rightX |-> rightX,
                             startTime |-> nodeAge,
                             endTime |-> nodeAge,
                             species |-> species]>>,
              leftX |-> leftX,
              rightX |-> rightX,
              species |-> species]

drawSpeciesTubesOuterLeaves(node, positions, nodeAge) ==
    IF Len(node.children) = 0
    THEN IF node.name \notin DOMAIN positions
         THEN [pops |-> <<>>, leftX |-> 0, rightX |-> 0, species |-> {}]
         ELSE LET pos == positions[node.name]
                  halfWidth == pos.width \div 2
              IN  [pops |-> <<[name |-> node.name,
                               leftX |-> pos.x - halfWidth,
                               rightX |-> pos.x + halfWidth,
                               startTime |-> 0,
                               endTime |-> nodeAge,
                               species |-> {node.name}]>>,
                   leftX |-> pos.x - halfWidth,
                   rightX |-> pos.x + halfWidth,
                   species |-> {node.name}]
    ELSE LET childAge == nodeAge - node.branchLength
             childResults == [k \in 1..Len(node.children) |->
                                 drawSpeciesTubes(node.children[k], positions, childAge)]
             leftX == MinOf([k \in 1..Len(childResults) |-> childResults[k].leftX])
             rightX == MaxOf([k \in 1..Len(childResults) |-> childResults[k].rightX])
             species == {getLeaves(node)[1], getLeaves(node)[Len(getLeaves(node))]}
             popName == IF node.name # <<>> THEN node.name ELSE AncName(leftX, rightX)
         IN  [pops |-> Flatten([k \in 1..Len(childResults) |-> childResults[k].pops])
                       \o <<[name |-> popName,
                             leftX |-> leftX,
                             rightX |-> rightX,
                             startTime |-> childAge,
                             endTime |-> nodeAge,
                             species |-> species]>>,
              leftX |-> leftX,
              rightX |-> rightX,
              species |-> species]

drawSpeciesTubes(node, positions, nodeAge) ==
    IF Len(node.children) = 0
    THEN IF node.name \notin DOMAIN positions
         THEN [pops |-> <<>>, leftX |-> 0, rightX |-> 0, species |-> {}]
         ELSE LET pos == positions[node.name]
                  halfWidth == pos.width \div 2
              IN  [pops |-> <<[name |-> node.name,
                               leftX |-> pos.x - halfWidth,
                               rightX |-> pos.x + halfWidth,
                               startTime |-> 0,
                               endTime |-> nodeAge,
                               species |-> {node.name}]>>,
                   leftX |-> pos.x - halfWidth,
                   rightX |-> pos.x + halfWidth,
                   species |-> {node.name}]
    ELSE LET childAge == nodeAge - node.branchLength
             childResults == [k \in 1..Len(node.children) |->
                                 drawSpeciesTubes(node.children[k], positions, childAge)]
             leftX == MinOf([k \in 1..Len(childResults) |-> childResults[k].leftX])
             rightX == MaxOf([k \in 1..Len(childResults) |-> childResults[k].rightX])
             species == UNION {childResults[k].species : k \in 1..Len(childResults)}
             popName == IF node.name # <<>> THEN node.name ELSE AncName(leftX, rightX)
         IN  [pops |-> Flatten([k \in 1..Len(childResults) |-> childResults[k].pops])
                       \o <<[name |-> popName,
                             leftX |-> leftX,
                             rightX |-> rightX,
                             startTime |-> childAge,
                             endTime |-> nodeAge,
                             species |-> species]>>,
              leftX |-> leftX,
              rightX |-> rightX,
              species |-> species]

\* drawGeneNodeConstrained: the species under the node and the
\* findPopulationForSpecies calls made, children first.  A call whose pop is
\* <<>> is the one the code warns about ("Invalid coalescence").
RECURSIVE drawGeneNodeConstrained(_, _, _)

drawGeneNodeConstrainedStoppingAtViolation(node, pops, im) ==
    IF Len(node.children) = 0
    THEN [species |-> {LeafSpecies(node, im)}, calls |-> <<>>]
    ELSE LET childResults == [k \in 1..Len(node.children) |->
                                 drawGeneNodeConstrained(node.children[k], pops, im)]
             coalescentTime == getGeneNodeAge(node)
             allSpecies == UNION {childResults[k].species : k \in 1..Len(childResults)}
             pop == findPopulationForSpecies(pops, allSpecies, coalescentTime)
             childCalls == Flatten([k \in 1..Len(childResults) |-> childResults[k].calls])
         IN  [species |-> allSpecies,
              calls |-> IF \E k \in 1..Len(childCalls) : childCalls[k].pop = <<>>
                        THEN childCalls
                        ELSE childCalls
                             \o <<[species |-> allSpecies, time |-> coalescentTime, pop |-> pop]>>]

drawGeneNodeConstrained(node, pops, im) ==
    IF Len(node.children) = 0
    THEN [species |-> {LeafSpecies(node, im)}, calls |-> <<>>]
    ELSE LET childResults == [k \in 1..Len(node.children) |->
                                 drawGeneNodeConstrained(node.children[k], pops, im)]
             coalescentTime == getGeneNodeAge(node)
             allSpecies == UNION {childResults[k].species : k \in 1..Len(childResults)}
             pop == findPopulationForSpecies(pops, allSpecies, coalescentTime)
         IN  [species |-> allSpecies,
              calls |-> Flatten([k \in 1..Len(childResults) |-> childResults[k].calls])
                        \o <<[species |-> allSpecies, time |-> coalescentTime, pop |-> pop]>>]

\* render(speciesTree, width, height): how far it went, the populations it
\* leaves and the containment calls it made.  `tree` is what parseNewick
\* returned, `gene` and `fixed` the renderer's geneTree and fixedScale,
\* `before` its populations and `table` its colour table when it is called.
render(tree, gene, im, fixed, before, table, width, height) ==
    IF tree.kind # "tree"
    THEN [drawn |-> "notree", populations |-> before, queries |-> <<>>,
          colors |-> resetPopulationColors(table)]
    ELSE IF width < 50 \/ height < 50 \/ Len(getLeaves(tree.tree)) = 0
    THEN [drawn |-> "small", populations |-> before, queries |-> <<>>,
          colors |-> resetPopulationColors(table)]
    ELSE LET speciesTree == tree.tree
             speciesLeaves == getLeaves(speciesTree)
             availableHeight == height - style.marginTop - style.marginBottom
             speciesDepth == getDepth(speciesTree)
             fallback == IF speciesDepth = 0 THEN UNIT \div 100 ELSE speciesDepth
             maxDepth == IF fixed # <<>> THEN fixed[1]
                         ELSE IF gene # <<>> THEN Max(fallback, getGeneTreeDepth(gene[1].root))
                         ELSE fallback
             positions == speciesPositions(speciesLeaves, width)
             tubeResult == drawSpeciesTubes(speciesTree, positions, speciesDepth)
             \* speciesRootY < rootY, with yScale = availableHeight / maxDepth
             rootShown == Sign(maxDepth - speciesDepth) * Sign(availableHeight) * Sign(maxDepth) > 0
             pops == tubeResult.pops
                     \o (IF rootShown
                         THEN <<[name |-> <<"r", "o", "o", "t">>,
                                 leftX |-> tubeResult.leftX,
                                 rightX |-> tubeResult.rightX,
                                 startTime |-> speciesDepth,
                                 endTime |-> maxDepth,
                                 species |-> {speciesLeaves[i] : i \in 1..Len(speciesLeaves)}]>>
                         ELSE <<>>)
         IN  [drawn |-> "drawn",
              populations |-> pops,
              queries |-> IF gene # <<>>
                          THEN drawGeneNodeConstrained(gene[1].root, pops, im).calls
                          ELSE <<>>,
              colors |-> requestColors(resetPopulationColors(table), tubeResult.pops)]

(***************************************************************************)
(* The indexer as a state machine.  index() runs to its first await in one *)
(* step; every later step is the code between two awaits.                  *)
(***************************************************************************)
\* No line has been handed to a parser.
ParsersIdle ==
    text = <<>> /\ pres = Pending /\ gres = Pending /\ wres = Pending /\ rres = Pending

\* BPPTApp.imap and the renderer's imap before an Imap file is loaded.
EmptyImap == [given |-> TRUE, map |-> <<>>]

NoFind == [called |-> FALSE, species |-> {}, time |-> 0, pop |-> <<>>]

\* new EmbeddedGeneTreeRenderer(), and no gene-tree line at hand.
RendererIdle ==
    /\ gline = <<>>
    /\ appImap = EmptyImap
    /\ geneTree = <<>>
    /\ fixedScale = <<>>
    /\ populations = <<>>
    /\ queries = <<>>
    /\ drawn = "none"
    /\ found = NoFind
    /\ populationColorIndex = <<>>
    /\ nextColorIndex = 0
    /\ colorRequests = <<>>

\* BPPTApp.currentTree: displayCurrentTree assigns parseNewick(newickStr)
\* and nothing else assigns it; it starts as null, which is also what
\* parseNewick('') returns.
currentTree == parseNewick(currentNewick)

\* The application as constructed: no file chosen, nothing displayed.
NoLoad == [pc |-> "idle", quiet |-> TRUE,
           before |-> [indexer |-> <<>>, currentNewick |-> <<>>,
                       currentTreeIndex |-> 0, maxTreeDepth |-> 0]]

AppIdle ==
    /\ indexer = <<>>
    /\ currentTreeIndex = 0
    /\ currentNewick = <<>>
    /\ maxTreeDepth = 0
    /\ geneTreeIndexers = <<>>
    /\ currentLocusIndex = 0
    /\ currentRendererName = "phylogram"
    /\ navigationEnabled = TRUE
    /\ sliderMax = 0
    /\ pending = {}
    /\ load = NoLoad

\* new FileIndexer(file, options)
NewIndexer(f, skip) ==
    /\ file = f
    /\ fileSize = Len(f)
    /\ skipFirstLine = skip
    /\ treeOffsets = <<>>
    /\ offset = 0
    /\ indexed = FALSE
    /\ ipc = "new"
    /\ got = NoCall

\* CHUNK_SIZE is 1024 * 1024 in the source; here it ranges over 1..MaxChunk so
\* that sources of a few bytes span several chunks.
Init ==
    /\ \E f \in SeqsUpTo(Bytes, MaxFileLen), skip \in BOOLEAN : NewIndexer(f, skip)
    /\ chunkSize \in 1..MaxChunk
    /\ ParsersIdle
    /\ RendererIdle
    /\ AppIdle

\* index() up to the first `await chunk.arrayBuffer()`, or to its end when
\* the loop is not entered.
IndexBegin ==
    /\ ipc = "new"
    /\ offset' = 0
    /\ IF 0 < fileSize
       THEN /\ treeOffsets' = <<0>>
            /\ ipc' = "reading"
            /\ indexed' = indexed
       ELSE /\ treeOffsets' = Finish(<<0>>, fileSize, skipFirstLine)
            /\ ipc' = "indexed"
            /\ indexed' = TRUE
    /\ UNCHANGED <<file, fileSize, skipFirstLine, chunkSize, got>>
    /\ UNCHANGED pvars
    /\ UNCHANGED evars
    /\ UNCHANGED avars

\* The chunk read resolves: scan it, advance, and either read the next
\* chunk or finish.
IndexChunk ==
    /\ ipc = "reading"
    /\ LET end == Min(offset + chunkSize, fileSize)
           bytes == Slice(file, offset, end)
           offs == treeOffsets \o ChunkOffsets(bytes, offset, fileSize)
       IN  /\ offset' = end
           /\ IF end < fileSize
              THEN /\ treeOffsets' = offs
                   /\ UNCHANGED <<ipc, indexed>>
              ELSE /\ treeOffsets' = Finish(offs, fileSize, skipFirstLine)
                   /\ ipc' = "indexed"
                   /\ indexed' = TRUE
    /\ UNCHANGED <<file, fileSize, skipFirstLine, chunkSize, got>>
    /\ UNCHANGED pvars
    /\ UNCHANGED evars
    /\ UNCHANGED avars

\* The chunk read rejects: index() throws out of the await.
IndexReadFail ==
    /\ ipc = "reading"
    /\ ipc' = "failed"
    /\ UNCHANGED <<file, fileSize, skipFirstLine, chunkSize, treeOffsets, offset, indexed, got>>
    /\ UNCHANGED pvars
    /\ UNCHANGED evars
    /\ UNCHANGED avars

\* getTree(index), at any time.  The offsets and the range are read before
\* the `await chunk.text()` and the source does not change, so the call is
\* one step.
GetTree ==
    /\ \E index \in -1..(MaxFileLen + 1) :
           got' = [at |-> ipc, rejected |-> FALSE,
                   r |-> getTree(treeOffsets, file, fileSize, index)]
    /\ UNCHANGED <<file, fileSize, skipFirstLine, chunkSize, treeOffsets, offset, indexed, ipc>>
    /\ UNCHANGED pvars
    /\ UNCHANGED evars
    /\ UNCHANGED avars

GetTreeReadFailResetsOffsets ==
    /\ \E index \in 0..(Len(treeOffsets) - 1) :
           got' = [at |-> ipc, rejected |-> TRUE,
                   r |-> [getTree(treeOffsets, file, fileSize, index) EXCEPT !.text = <<>>]]
    /\ treeOffsets' = <<0>>
    /\ UNCHANGED <<file, fileSize, skipFirstLine, chunkSize, offset, indexed, ipc>>
    /\ UNCHANGED pvars
    /\ UNCHANGED evars
    /\ UNCHANGED avars

\* getTree(index) whose `await chunk.text()` rejects: the call throws after
\* the range has been computed, and no text is returned.
GetTreeReadFail ==
    /\ \E index \in 0..(Len(treeOffsets) - 1) :
           got' = [at |-> ipc, rejected |-> TRUE,
                   r |-> [getTree(treeOffsets, file, fileSize, index) EXCEPT !.text = <<>>]]
    /\ UNCHANGED <<file, fileSize, skipFirstLine, chunkSize, treeOffsets, offset, indexed, ipc>>
    /\ UNCHANGED pvars
    /\ UNCHANGED evars
    /\ UNCHANGED avars

Next == IndexBegin \/ IndexChunk \/ IndexReadFail \/ GetTree \/ GetTreeReadFail

Spec == Init /\ [][Next]_vars

(***************************************************************************)
(* The parsers applied to one line.  The line is any text of at most       *)
(* MaxTextLen characters of ParseChars, or one of SampleLines.             *)
(***************************************************************************)
ParseChars == {"(", ")", ",", ";", ":", "A", "1", " ", "→"}

Opt(mark, values) == {<<>>} \cup {<<mark>> \o v : v \in values}

LeafTexts ==
    {n \o th \o ln : n \in {<<"A">>, <<"B">>},
                     th \in Opt("#", {<<"1">>}),
                     ln \in Opt(":", {<<"0", ".", "1">>})}

Group(a, b) == <<"(">> \o a \o <<",">> \o b \o <<")">>

CherryTexts ==
    {Group(a, b) \o th \o ln : a \in LeafTexts, b \in LeafTexts,
                                th \in Opt("#", {<<"1">>}),
                                ln \in Opt(":", {<<"0", ".", "0", "5">>})}

ExampleTree == Group(<<"A", ":", "0", ".", "1">>, <<"B", ":", "0", ".", "1">>) \o <<":", "0", ".", "0", "5">>

NestedTexts ==
    {Group(c, l) \o <<":", "1">> : c \in {Group(<<"A">>, <<"B">>), ExampleTree}, l \in LeafTexts}
    \cup {Group(<<"A", " ", "#", "1", ":", " ", "0", ".", "1">>, <<" ", "B", " ">>) \o <<" ", "#", "1">>,
          <<"2", "→">> \o ExampleTree,
          <<"(", "A", ",", "B", ")", ")">>,
          <<"(", "A", ",", "(", "B", ",", "A", ")">>,
          <<"(", "A", ";", "B", ")">>}

SampleLines == LeafTexts \cup CherryTexts \cup NestedTexts

WrapIndexes == {<<"1">>, <<" ", "1", "2", " ">>}
WrapCounts == {<<"3">>, <<"1", "0">>}

\* n + '→' + T + '; ' + k
Wrap(n, T, k) == n \o <<"→">> \o T \o <<";", " ">> \o k

InitParse ==
    /\ NewIndexer(<<>>, FALSE)
    /\ chunkSize = 1
    /\ text \in SeqsUpTo(ParseChars, MaxTextLen) \cup SampleLines
    /\ pres = Pending
    /\ gres = Pending
    /\ wres = Pending
    /\ rres = Pending
    /\ RendererIdle
    /\ AppIdle

ParseNewick ==
    /\ pres = Pending
    /\ pres' = parseNewick(text)
    /\ UNCHANGED <<text, gres, wres, rres>>
    /\ UNCHANGED ivars
    /\ UNCHANGED evars
    /\ UNCHANGED avars

ParseGeneTree ==
    /\ gres = Pending
    /\ gres' = parseGeneTree(text, NoImap)
    /\ UNCHANGED <<text, pres, wres, rres>>
    /\ UNCHANGED ivars
    /\ UNCHANGED evars
    /\ UNCHANGED avars

ParseWrapped ==
    /\ wres = Pending
    /\ \E n \in WrapIndexes, k \in WrapCounts :
           wres' = [kind |-> "done", n |-> n, k |-> k,
                    wrapped |-> parseNewick(Wrap(n, text, k)),
                    plain |-> parseNewick(Append(text, ";"))]
    /\ UNCHANGED <<text, pres, gres, rres>>
    /\ UNCHANGED ivars
    /\ UNCHANGED evars
    /\ UNCHANGED avars

\* toNewick of the tree parseNewick returned, and parseNewick of that text.
RoundTrip ==
    /\ rres = Pending
    /\ pres.kind = "tree"
    /\ LET serial == toNewick(pres.tree)
       IN  rres' = [kind |-> "done", serial |-> serial, again |-> parseNewick(serial)]
    /\ UNCHANGED <<text, pres, gres, wres>>
    /\ UNCHANGED ivars
    /\ UNCHANGED evars
    /\ UNCHANGED avars

NextParse == ParseNewick \/ ParseGeneTree \/ ParseWrapped \/ RoundTrip

SpecParse == InitParse /\ [][NextParse]_vars

(***************************************************************************)
(* The embedded view of one sample: a species-tree line, the gene-tree     *)
(* line of the same sample and an Imap.  Text is written here as a list of *)
(* one-character strings.  A behaviour displays one sample, in the order   *)
(* of displayCurrentTree: the scale and the gene tree are set before the   *)
(* first render, and render may then repeat on canvases of other sizes.    *)
(***************************************************************************)
SpeciesLines ==
    {<<"(", "A", ":", "1", ",", "B", ":", "1", ")", ":", "0", ";">>,
     <<"(", "(", "A", ":", "1", ",", "B", ":", "1", ")", ":", "1", ",", "C", ":", "2", ")", ";">>,
     <<"(", "(", "A", ":", "1", ",", "B", ":", "3", ")", ":", "1", ",", "C", ":", "2", ")", ";">>,
     <<"(", "(", "A", ":", "1", ",", "B", ":", "1", ")", "A", "B", ":", "1", ",", "C", ":", "2", ")", "R", ":", "1">>,
     ExampleTree,
     <<"A", ":", "1">>,
     <<"(", "A", ":", "0", ")">>,
     <<"(", "A", ",", "B", ")">>,
     <<"(", "A", ":", "-", "1", ",", "B", ":", "-", "1", ")">>,
     <<"(", "(", "A", ",", "B", ")", ",", "(", "A", ",", "C", ")", ")">>,
     <<"(", "(", "(", "(", "(", "(", "(", "(", "(", "A", ")", "B", ")", "C", ")", "D", ")", "E", ")",
       "F", ")", "G", ")", "H", ")", "I", ")", "A">>,
     <<";">>}

GeneLines ==
    {<<"(", "A", "^", "a", "1", ":", "0", ".", "5", ",", "B", "^", "b", "1", ":", "0", ".", "5", ")",
       ":", "0", ";", "[", "T", "H", "=", "0", ".", "5", ",", "T", "L", "=", "1", ".", "0", "]">>,
     <<"(", "A", "^", "a", "1", ":", "1", ",", "B", "^", "b", "1", ":", "1", ")", ":", "1", ";">>,
     <<"(", "A", "^", "a", "1", ":", "1", ",", "C", "^", "c", "1", ":", "1", ")", ";">>,
     <<"(", "A", "^", "a", "1", ":", "2", ",", "C", "^", "c", "1", ":", "2", ")", ";">>,
     <<"(", "(", "A", "^", "a", "1", ":", "1", ",", "B", "^", "b", "1", ":", "1", ")", ":", "1", ",",
       "C", "^", "c", "1", ":", "2", ")", ";">>,
     <<"(", "a", "1", "^", "A", ":", "1", ",", "b", "1", "^", "B", ":", "2", ")", ";">>,
     <<"(", "A", "^", "a", "1", ":", "1", ",", "x", ":", "1", ")", ";">>,
     <<"(", "(", "A", "^", "a", "1", ":", "1", ",", "x", ":", "1", ")", ":", "1", ",",
       "C", "^", "c", "1", ":", "2", ")", ";">>,
     <<"(", "(", "A", "^", "a", "1", ":", "1", ",", "C", "^", "c", "1", ":", "1", ")", ":", "2", ",",
       "B", "^", "b", "1", ":", "3", ")", ";">>,
     <<"(", "A", "^", "B", "C", "D", ":", "1", ",", "b", "^", "A", "B", ":", "1", ")", ";">>,
     <<"(", "B", "^", "A", "1", ":", "1", ",", "A", "^", "b", ":", "1", ")", ";">>,
     <<"(", "A", "^", ":", "1", ",", "^", "B", ":", "1", ")", ";">>,
     <<"A", "^", "a", "1", ":", "1">>,
     <<"(", "A", "^", "a", "1", ":", "1">>}

\* An Imap file without a line for x, and one mapping x to species A.
Imaps == {EmptyImap, [given |-> TRUE, map |-> (<<"x">> :> <<"A">>)]}

\* The gene-tree lines with the Imaps they are read with: every line with
\* the first Imap, the lines that name x with the second as well.
GeneInputs ==
    {<<g, EmptyImap>> : g \in GeneLines}
    \cup {<<g, im>> : g \in {l \in GeneLines : \E k \in 1..Len(l) : l[k] = "x"}, im \in Imaps}

\* fixedScale is 1.05 times the largest TH of the sampled lines of the locus.
Scales == {525000, 3 * UNIT}

\* Canvas sizes <<width, height>>: too narrow to draw, no room between the
\* vertical margins, and a canvas with room.
Canvases == {<<40, 400>>, <<460, 100>>, <<460, 400>>}

Taxa == {<<"A">>, <<"B">>, <<"C">>, <<"x">>}
TaxonSets == {{a} : a \in Taxa} \cup {{<<"A">>, <<"B">>}, {<<"A">>, <<"C">>}, {<<"A">>, <<"B">>, <<"C">>}}
Times == {0, 500000, UNIT, 2 * UNIT}

InitEmbed ==
    /\ NewIndexer(<<>>, FALSE)
    /\ chunkSize = 1
    /\ text \in SpeciesLines
    /\ pres = Pending
    /\ gres = Pending
    /\ wres = Pending
    /\ rres = Pending
    /\ \E input \in GeneInputs : gline = input[1] /\ appImap = input[2]
    /\ geneTree = <<>>
    /\ fixedScale = <<>>
    /\ populations = <<>>
    /\ queries = <<>>
    /\ drawn = "none"
    /\ found = NoFind
    /\ populationColorIndex = <<>>
    /\ nextColorIndex = 0
    /\ colorRequests = <<>>
    /\ AppIdle

\* updateEmbeddedRenderer, which displayCurrentTree awaits before it
\* renders: the gene tree of the current sample, or null when there is no
\* locus or no line for the sample.
UpdateEmbeddedRenderer ==
    /\ drawn = "none"
    /\ \/ LET g == parseGeneTree(gline, appImap)
          IN  geneTree' = IF g.kind = "tree" THEN <<g.tree>> ELSE <<>>
       \/ geneTree' = <<>>
    /\ UNCHANGED <<gline, appImap, fixedScale, populations, queries, drawn, found>>
    /\ UNCHANGED <<populationColorIndex, nextColorIndex, colorRequests>>
    /\ UNCHANGED ivars
    /\ UNCHANGED pvars
    /\ UNCHANGED avars

\* updateEmbeddedScale -> setFixedScale(maxHeight), which handleGeneTreeSelect
\* calls before the embedded view is first shown.
SetFixedScale ==
    /\ drawn = "none"
    /\ fixedScale = <<>>
    /\ \E v \in Scales : fixedScale' = <<v>>
    /\ UNCHANGED <<gline, appImap, geneTree, populations, queries, drawn, found>>
    /\ UNCHANGED <<populationColorIndex, nextColorIndex, colorRequests>>
    /\ UNCHANGED ivars
    /\ UNCHANGED pvars
    /\ UNCHANGED avars

\* BPPTApp.render() -> renderer.render(this.currentTree, width, height);
\* currentTree is null until a line has been parsed.
Render ==
    /\ pres.kind # "hang"
    /\ \E canvas \in Canvases :
           LET r == render(IF pres.kind = "tree" THEN pres ELSE Null,
                           geneTree, appImap, fixedScale, populations,
                           [index |-> populationColorIndex, next |-> nextColorIndex,
                            requests |-> colorRequests],
                           canvas[1], canvas[2])
           IN  /\ populations' = r.populations
               /\ queries' = r.queries
               /\ drawn' = r.drawn
               /\ populationColorIndex' = r.colors.index
               /\ nextColorIndex' = r.colors.next
               /\ colorRequests' = r.colors.requests
    /\ found' = NoFind
    /\ UNCHANGED <<gline, appImap, geneTree, fixedScale>>
    /\ UNCHANGED ivars
    /\ UNCHANGED pvars
    /\ UNCHANGED avars

\* findPopulationForSpecies on the populations of the last render, for a
\* taxon set and a time of the caller's choice.
FindPopulation ==
    /\ drawn = "drawn"
    /\ found = NoFind
    /\ \E speciesSet \in TaxonSets, time \in Times :
           found' = [called |-> TRUE, species |-> speciesSet, time |-> time,
                     pop |-> findPopulationForSpecies(populations, speciesSet, time)]
    /\ UNCHANGED <<gline, appImap, geneTree, fixedScale, populations, queries, drawn>>
    /\ UNCHANGED <<populationColorIndex, nextColorIndex, colorRequests>>
    /\ UNCHANGED ivars
    /\ UNCHANGED pvars
    /\ UNCHANGED avars

NextEmbed == ParseNewick \/ UpdateEmbeddedRenderer \/ SetFixedScale \/ Render \/ FindPopulation

SpecEmbed == InitEmbed /\ [][NextEmbed]_vars

(***************************************************************************)
(* BPPTApp: loading a species-tree file, navigation and the embedded view. *)
(* A file is the sequence of its lines; the FileIndexer of the file is     *)
(* [lines, built].  While index() waits for its first read, and after that *)
(* read failed, treeOffsets is [0]; when index() is through, the first     *)
(* line is skipped ({skipFirstLine: true}) and every other line has its    *)
(* offset.  getTree() fixes the byte range before it awaits the read, so a *)
(* read in flight is known by the text it will deliver.  An await of a     *)
(* promise that is already resolved is resumed before any other event, so  *)
(* the code behind it belongs to the same step.                            *)
(***************************************************************************)
MaxPending == 2

\* 'PageUp' / 'PageDown': gotoTree(this.currentTreeIndex -/+ 100)
PageStep == 100

StartLine == <<"S">>

SpeciesFiles ==
    {<<StartLine, <<"A", ":", "1">>, <<"B", ":", "2">>>>,
     <<StartLine>>}

\* The gene-tree files chosen together: one per locus, without a first line
\* to skip.
GeneFiles ==
    <<<<<<"A", "^", "a", ":", "1">>, <<"A", "^", "b", ":", "1">>>>,
      <<<<"B", "^", "a", ":", "1">>>>>>

\* The text of a file: its lines, each ended by a line feed.
FileText(lines) == Flatten([k \in 1..Len(lines) |-> lines[k] \o <<"\n">>])

\* FileIndexer.getTreeCount() of the species-tree indexer
treeCountOf(ix) == IF ix.built = "indexed" THEN Len(ix.lines) - 1 ELSE 1

\* FileIndexer.getTree(index) of the species-tree indexer: the text it
\* resolves with
treeOf(ix, index) ==
    IF index < 0 \/ index >= treeCountOf(ix) THEN <<>>
    ELSE IF ix.built = "indexed" THEN Trim(ix.lines[index + 2])
    ELSE Trim(FileText(ix.lines))

\* updateEmbeddedRenderer(): the read it issues, or setGeneTree(null)
updateEmbedded(index, locusIndex, indexers) ==
    IF /\ Len(indexers) > 0
       /\ locusIndex < Len(indexers)
       /\ index < Len(indexers[locusIndex + 1])
    THEN [reads |-> {[kind |-> "gene", text |-> Trim(indexers[locusIndex + 1][index + 1])]},
          clears |-> FALSE]
    ELSE [reads |-> {}, clears |-> TRUE]

\* displayCurrentTree() after `await this.indexer.getTree(...)`: the tree
\* is replaced and, in embedded view with loci, the gene tree of
\* this.currentTreeIndex (index) is asked for.  rest is what is still in
\* flight.
Shown(newickStr, index, locusIndex, indexers, rendererName, rest) ==
    LET upd == IF rendererName = "embedded" /\ Len(indexers) > 0
               THEN updateEmbedded(index, locusIndex, indexers)
               ELSE [reads |-> {}, clears |-> FALSE]
    IN  /\ currentNewick' = newickStr
        /\ Cardinality(rest \cup upd.reads) <= MaxPending
        /\ pending' = rest \cup upd.reads
        /\ geneTree' = IF upd.clears THEN <<>> ELSE geneTree

\* displayCurrentTree() with this.currentTreeIndex = index, up to its first
\* await; an index out of range resolves at once with ''.
DisplayCurrentTree(ixs, index) ==
    IF ixs = <<>>
    THEN UNCHANGED <<currentNewick, pending, geneTree>>
    ELSE LET treeCount == treeCountOf(ixs[1])
             newickStr == treeOf(ixs[1], index)
         IN  IF 0 <= index /\ index < treeCount
             THEN /\ Cardinality(pending \cup {[kind |-> "species", text |-> newickStr]}) <= MaxPending
                  /\ pending' = pending \cup {[kind |-> "species", text |-> newickStr]}
                  /\ UNCHANGED <<currentNewick, geneTree>>
             ELSE Shown(newickStr, index, currentLocusIndex, geneTreeIndexers,
                        currentRendererName, pending)

\* What no handler of the application touches.
appFrame ==
    /\ UNCHANGED <<gline, appImap, fixedScale, populations, queries, drawn, found>>
    /\ UNCHANGED <<populationColorIndex, nextColorIndex, colorRequests>>
    /\ UNCHANGED ivars
    /\ UNCHANGED pvars

\* The load record once something other than handleFileSelect has acted
\* since the load began.
Disturbed == IF load.pc = "idle" THEN load ELSE [load EXCEPT !.quiet = FALSE]

\* A navigation handler that moves to index and calls displayCurrentTree().
MoveTo(index) ==
    /\ currentTreeIndex' = index
    /\ DisplayCurrentTree(indexer, index)
    /\ load' = Disturbed
    /\ UNCHANGED <<indexer, maxTreeDepth, geneTreeIndexers, currentLocusIndex,
                   currentRendererName, navigationEnabled, sliderMax>>
    /\ appFrame

\* handleFileSelect up to `await this.indexer.index(...)`
HandleFileSelect ==
    /\ load.pc \in {"idle", "failed"}
    /\ \E f \in SpeciesFiles : indexer' = <<[lines |-> f, built |-> "building"]>>
    /\ navigationEnabled' = FALSE
    /\ load' = [pc |-> "indexing", quiet |-> TRUE,
                before |-> [indexer |-> indexer, currentNewick |-> currentNewick,
                            currentTreeIndex |-> currentTreeIndex,
                            maxTreeDepth |-> maxTreeDepth]]
    /\ UNCHANGED <<currentTreeIndex, currentNewick, maxTreeDepth, geneTreeIndexers,
                   currentLocusIndex, currentRendererName, sliderMax, pending, geneTree>>
    /\ appFrame

\* index() is through: no trees (alert, return), or findMaxTreeDepth up to
\* its `await Promise.all(promises)`.
LoadIndexed ==
    /\ load.pc = "indexing"
    /\ indexer' = <<[indexer[1] EXCEPT !.built = "indexed"]>>
    /\ load' = IF Len(indexer[1].lines) - 1 = 0 THEN NoLoad ELSE [load EXCEPT !.pc = "sampling"]
    /\ UNCHANGED <<currentTreeIndex, currentNewick, maxTreeDepth, geneTreeIndexers,
                   currentLocusIndex, currentRendererName, navigationEnabled, sliderMax,
                   pending, geneTree>>
    /\ appFrame

\* A read of index() fails: the catch of handleFileSelect.
LoadIndexFails ==
    /\ load.pc = "indexing"
    /\ indexer' = <<[indexer[1] EXCEPT !.built = "failed"]>>
    /\ load' = [load EXCEPT !.pc = "failed"]
    /\ UNCHANGED <<currentTreeIndex, currentNewick, maxTreeDepth, geneTreeIndexers,
                   currentLocusIndex, currentRendererName, navigationEnabled, sliderMax,
                   pending, geneTree>>
    /\ appFrame

\* The sampled trees are back: maxTreeDepth, the slider, currentTreeIndex =
\* 0, enableNavigation() and displayCurrentTree().
LoadSampled ==
    /\ load.pc = "sampling"
    /\ LET ix == indexer[1]
           depths == [i \in 1..treeCountOf(ix) |->
                         LET tree == parseNewick(treeOf(ix, i - 1))
                         IN  IF tree.kind = "tree" THEN Max(getDepth(tree.tree), 0) ELSE 0]
       IN  maxTreeDepth' = MaxOf(depths)
    /\ sliderMax' = treeCountOf(indexer[1]) - 1
    /\ currentTreeIndex' = 0
    /\ navigationEnabled' = TRUE
    /\ DisplayCurrentTree(indexer, 0)
    /\ load' = NoLoad
    /\ UNCHANGED <<indexer, geneTreeIndexers, currentLocusIndex, currentRendererName>>
    /\ appFrame

\* A read of findMaxTreeDepth fails: the catch of handleFileSelect.
LoadSampleFails ==
    /\ load.pc = "sampling"
    /\ load' = [load EXCEPT !.pc = "failed"]
    /\ UNCHANGED <<indexer, currentTreeIndex, currentNewick, maxTreeDepth, geneTreeIndexers,
                   currentLocusIndex, currentRendererName, navigationEnabled, sliderMax,
                   pending, geneTree>>
    /\ appFrame

\* The read of a displayCurrentTree() call comes back.
SpeciesTreeArrives ==
    /\ \E r \in {q \in pending : q.kind = "species"} :
           Shown(r.text, currentTreeIndex, currentLocusIndex, geneTreeIndexers,
                 currentRendererName, pending \ {r})
    /\ load' = Disturbed
    /\ UNCHANGED <<indexer, currentTreeIndex, maxTreeDepth, geneTreeIndexers,
                   currentLocusIndex, currentRendererName, navigationEnabled, sliderMax>>
    /\ appFrame

\* The read of an updateEmbeddedRenderer() call comes back: setGeneTree of
\* what parseGeneTree returns.
GeneTreeArrives ==
    /\ \E r \in {q \in pending : q.kind = "gene"} :
           /\ pending' = pending \ {r}
           /\ LET g == parseGeneTree(r.text, EmptyImap)
              IN  geneTree' = IF g.kind = "tree" THEN <<g.tree>> ELSE <<>>
    /\ UNCHANGED <<indexer, currentTreeIndex, currentNewick, maxTreeDepth, geneTreeIndexers,
                   currentLocusIndex, currentRendererName, navigationEnabled, sliderMax,
                   load>>
    /\ appFrame

\* The slider is moved: its value lies between slider.min and slider.max.
HandleSliderChange ==
    /\ navigationEnabled
    /\ \E newIndex \in 0..sliderMax :
           /\ newIndex # currentTreeIndex
           /\ MoveTo(newIndex)

\* Enter in the tree input, with a number typed in.
HandleTreeInputSubmit ==
    /\ navigationEnabled
    /\ indexer # <<>>
    /\ \E treeNum \in 0..3 :
           LET index == Max(0, Min(treeNum - 1, treeCountOf(indexer[1]) - 1))
           IN  /\ index # currentTreeIndex
               /\ MoveTo(index)

prevTree ==
    /\ currentTreeIndex > 0
    /\ MoveTo(currentTreeIndex - 1)

nextTree ==
    /\ indexer # <<>>
    /\ currentTreeIndex < treeCountOf(indexer[1]) - 1
    /\ MoveTo(currentTreeIndex + 1)

gotoTree(index) ==
    /\ indexer # <<>>
    /\ LET clamped == Max(0, Min(index, treeCountOf(indexer[1]) - 1))
       IN  /\ clamped # currentTreeIndex
           /\ MoveTo(clamped)

\* The buttons, which can be clicked while they are not disabled.
PrevButton == navigationEnabled /\ prevTree

NextButton == navigationEnabled /\ nextTree

\* keydown on the window, with the focus outside the tree input
HandleKeyboard ==
    /\ indexer # <<>>
    /\ \E key \in {"ArrowLeft", "ArrowRight", "Home", "End", "PageUp", "PageDown"} :
           CASE key = "ArrowLeft" -> prevTree
             [] key = "ArrowRight" -> nextTree
             [] key = "Home" -> gotoTree(0)
             [] key = "End" -> gotoTree(treeCountOf(indexer[1]) - 1)
             [] key = "PageUp" -> gotoTree(currentTreeIndex - PageStep)
             [] key = "PageDown" -> gotoTree(currentTreeIndex + PageStep)

\* handleGeneTreeSelect, the first time gene-tree files are chosen, from
\* `await this.findMaxGeneTreeHeights()` on: the embedded view is selected
\* and updateEmbeddedRenderer() called.  Until then the handler has changed
\* nothing another handler reads while the view is not the embedded one.
HandleGeneTreeSelect ==
    /\ geneTreeIndexers = <<>>
    /\ geneTreeIndexers' = GeneFiles
    /\ currentLocusIndex' = 0
    /\ currentRendererName' = "embedded"
    /\ LET upd == updateEmbedded(currentTreeIndex, 0, GeneFiles)
       IN  /\ Cardinality(pending \cup upd.reads) <= MaxPending
           /\ pending' = pending \cup upd.reads
           /\ geneTree' = IF upd.clears THEN <<>> ELSE geneTree
    /\ UNCHANGED <<indexer, currentTreeIndex, currentNewick, maxTreeDepth, navigationEnabled,
                   sliderMax, load>>
    /\ appFrame

\* Another locus is picked in the locus selector.
HandleLocusChange ==
    /\ geneTreeIndexers # <<>>
    /\ \E locusIndex \in 0..(Len(geneTreeIndexers) - 1) :
           /\ locusIndex # currentLocusIndex
           /\ currentLocusIndex' = locusIndex
           /\ LET upd == updateEmbedded(currentTreeIndex, locusIndex, geneTreeIndexers)
              IN  /\ Cardinality(pending \cup upd.reads) <= MaxPending
                  /\ pending' = pending \cup upd.reads
                  /\ geneTree' = IF upd.clears THEN <<>> ELSE geneTree
    /\ UNCHANGED <<indexer, currentTreeIndex, currentNewick, maxTreeDepth, geneTreeIndexers,
                   currentRendererName, navigationEnabled, sliderMax, load>>
    /\ appFrame

\* Another view is picked; 'embedded' is on offer once gene trees are loaded.
HandleViewChange ==
    /\ \E name \in {"phylogram", "embedded"} :
           /\ name # currentRendererName
           /\ name = "embedded" => geneTreeIndexers # <<>>
           /\ currentRendererName' = name
           /\ LET upd == IF name = "embedded" /\ Len(geneTreeIndexers) > 0
                         THEN updateEmbedded(currentTreeIndex, currentLocusIndex, geneTreeIndexers)
                         ELSE [reads |-> {}, clears |-> FALSE]
              IN  /\ Cardinality(pending \cup upd.reads) <= MaxPending
                  /\ pending' = pending \cup upd.reads
                  /\ geneTree' = IF upd.clears THEN <<>> ELSE geneTree
    /\ UNCHANGED <<indexer, currentTreeIndex, currentNewick, maxTreeDepth, geneTreeIndexers,
                   currentLocusIndex, navigationEnabled, sliderMax, load>>
    /\ appFrame

\* The application as constructed.  The markup is not among the sources:
\* the navigation controls start enabled or disabled, the slider at 0..0.
InitApp ==
    /\ NewIndexer(<<>>, FALSE)
    /\ chunkSize = 1
    /\ ParsersIdle
    /\ RendererIdle
    /\ indexer = <<>>
    /\ currentTreeIndex = 0
    /\ currentNewick = <<>>
    /\ maxTreeDepth = 0
    /\ geneTreeIndexers = <<>>
    /\ currentLocusIndex = 0
    /\ currentRendererName = "phylogram"
    /\ navigationEnabled \in BOOLEAN
    /\ sliderMax = 0
    /\ pending = {}
    /\ load = NoLoad

NextApp ==
    \/ HandleFileSelect \/ LoadIndexed \/ LoadIndexFails \/ LoadSampled \/ LoadSampleFails
    \/ SpeciesTreeArrives \/ GeneTreeArrives
    \/ HandleSliderChange \/ HandleTreeInputSubmit \/ PrevButton \/ NextButton
    \/ HandleKeyboard
    \/ HandleGeneTreeSelect \/ HandleLocusChange \/ HandleViewChange

SpecApp == InitApp /\ [][NextApp]_vars

(***************************************************************************)
(* Reference notions the properties of the index are stated with.  They    *)
(* are computed from the bytes of the source alone.                        *)
(***************************************************************************)
\* The 1-based positions of the line feeds of f, in order.
LFPositions(f) ==
    LET IsLF(k) == f[k] = LF
    IN  SelectSeq([k \in 1..Len(f) |-> k], IsLF)

LineCount(f) == Len(LFPositions(f))

\* L >= 1 newline-terminated non-empty lines and no trailing partial line.
WellFormed(f) ==
    /\ Len(f) > 0
    /\ f[Len(f)] = LF
    /\ f[1] # LF
    /\ \A k \in 1..(Len(f) - 1) : ~(f[k] = LF /\ f[k + 1] = LF)

\* The bytes of line i (0-based) of a well-formed f, without its terminator.
Line(f, i) ==
    LET pos == LFPositions(f)
        first == IF i = 0 THEN 1 ELSE pos[i] + 1
    IN  SubSeq(f, first, pos[i + 1] - 1)

\* The byte offsets at which the lines of f start: 0, and the offset after
\* every line feed that is not the last byte.
LineStarts(f) ==
    LET IsStart(e) == e = 0 \/ f[e] = LF
    IN  SelectSeq([k \in 1..Len(f) |-> k - 1], IsStart)

RefOffsets(f, skip) ==
    IF skip /\ LineStarts(f) # <<>> THEN Tail(LineStarts(f)) ELSE LineStarts(f)

Completed == ipc = "indexed"

\* A call of getTree made on the completed index.
Retrieved == Completed /\ got.at = "indexed" /\ ~got.rejected

(***************************************************************************)
(* C1 (as stated): on a source of L >= 1 newline-terminated non-empty      *)
(* lines, indexed with skipFirstLine = false, getTreeCount() = L and       *)
(* getTree(i) is exactly the text of line i without its terminator.        *)
(***************************************************************************)
C1_ExactLines ==
    (Completed /\ ~skipFirstLine /\ WellFormed(file)) =>
        /\ getTreeCount = LineCount(file)
        /\ (Retrieved /\ got.r.index \in 0..(LineCount(file) - 1)) =>
               got.r.text = Decode(Line(file, got.r.index))

(***************************************************************************)
(* C1 (amended): as C1, but getTree(i) is the text of line i without its   *)
(* terminator and with its leading and trailing whitespace removed.        *)
(***************************************************************************)
C1_TrimmedLines ==
    (Completed /\ ~skipFirstLine /\ WellFormed(file)) =>
        /\ getTreeCount = LineCount(file)
        /\ (Retrieved /\ got.r.index \in 0..(LineCount(file) - 1)) =>
               got.r.text = Trim(Decode(Line(file, got.r.index)))

C1_Witness ==
    /\ Retrieved /\ ~skipFirstLine /\ WellFormed(file)
    /\ LineCount(file) >= 2
    /\ chunkSize < fileSize
    /\ got.r.index = LineCount(file) - 1
    /\ got.r.text = <<"b">>

(***************************************************************************)
(* C2 (as stated): on a source of L >= 1 newline-terminated non-empty      *)
(* lines, indexed with skipFirstLine = true, getTreeCount() = L - 1 and    *)
(* getTree(i) is exactly original line i + 1; a one-line source gives an   *)
(* empty index.                                                            *)
(***************************************************************************)
C2_SkipExactLines ==
    (Completed /\ skipFirstLine /\ WellFormed(file)) =>
        /\ getTreeCount = LineCount(file) - 1
        /\ (Retrieved /\ got.r.index \in 0..(LineCount(file) - 2)) =>
               got.r.text = Decode(Line(file, got.r.index + 1))

(***************************************************************************)
(* C2 (amended): as C2, but getTree(i) is original line i + 1 with its     *)
(* leading and trailing whitespace removed.                                *)
(***************************************************************************)
C2_SkipTrimmedLines ==
    (Completed /\ skipFirstLine /\ WellFormed(file)) =>
        /\ getTreeCount = LineCount(file) - 1
        /\ (Retrieved /\ got.r.index \in 0..(LineCount(file) - 2)) =>
               got.r.text = Trim(Decode(Line(file, got.r.index + 1)))

C2_Witness ==
    /\ Retrieved /\ skipFirstLine /\ WellFormed(file)
    /\ LineCount(file) = 2
    /\ chunkSize < fileSize
    /\ got.r.index = 0
    /\ got.r.text = <<"b">>
    /\ Decode(Line(file, 0)) = <<"a">>

(***************************************************************************)
(* C3: the offsets index() builds are those of one pass over the whole     *)
(* source, whatever the chunk size: no line feed at or next to a chunk     *)
(* boundary is missed or counted twice.                                    *)
(***************************************************************************)
C3_ChunkIndependent ==
    Completed => treeOffsets = RefOffsets(file, skipFirstLine)

\* A line feed is the last byte of a chunk that is not the last chunk, and
\* another is the first byte of a chunk.
C3_Witness ==
    /\ Completed
    /\ chunkSize < fileSize
    /\ \E k \in 1..(fileSize - 1) : k % chunkSize = 0 /\ file[k] = LF
    /\ \E k \in 1..(fileSize - 1) : k % chunkSize = 1 /\ k > 1 /\ file[k] = LF
    /\ Len(treeOffsets) >= 2

(***************************************************************************)
(* C4: after index() the offsets are strictly increasing and each is       *)
(* smaller than the source length, and getTree(i) reads exactly the bytes  *)
(* from offset[i] to offset[i+1], or to the end of the source for the last *)
(* index.                                                                  *)
(***************************************************************************)
C4_OffsetsAndRanges ==
    Completed =>
        /\ \A k \in 1..(Len(treeOffsets) - 1) : treeOffsets[k] < treeOffsets[k + 1]
        /\ \A k \in 1..Len(treeOffsets) : treeOffsets[k] >= 0 /\ treeOffsets[k] < fileSize
        /\ (Retrieved /\ got.r.index \in 0..(getTreeCount - 1)) =>
               /\ got.r.inRange
               /\ got.r.start = treeOffsets[got.r.index + 1]
               /\ got.r.end = IF got.r.index = getTreeCount - 1
                               THEN fileSize
                               ELSE treeOffsets[got.r.index + 2]

C4_Witness ==
    /\ Retrieved
    /\ getTreeCount >= 3
    /\ got.r.index = 1
    /\ got.r.end = treeOffsets[3]

(***************************************************************************)
(* C5: indexing an empty source completes without error and gives an empty *)
(* index, with skipFirstLine true or false.                                *)
(***************************************************************************)
C5_EmptySource ==
    (fileSize = 0 /\ ipc # "new") => (ipc = "indexed" /\ indexed /\ getTreeCount = 0)

C5_Witness == fileSize = 0 /\ ipc = "indexed" /\ ~skipFirstLine /\ got.at = "indexed"

(***************************************************************************)
(* C6 (as stated): what getTree(i) returns for i outside [0, count) can be *)
(* told from what it returns for every line that is in the index, a blank  *)
(* indexed line included.                                                  *)
(***************************************************************************)
C6_OutOfRangeDistinguishable ==
    (Retrieved /\ (got.r.index < 0 \/ got.r.index >= getTreeCount)) =>
        \A j \in 0..(getTreeCount - 1) :
            getTree(treeOffsets, file, fileSize, j).text # got.r.text

(***************************************************************************)
(* Reference notions the properties of the parsers are stated with: the    *)
(* nesting of the parentheses of a text, and the species-tree grammar      *)
(*   NODE := '(' NODE (',' NODE)* ')' [NAME] ['#' THETA] [':' LENGTH]      *)
(*         | NAME ['#' THETA] [':' LENGTH]                                 *)
(* with NAME a run without delimiters and THETA, LENGTH decimals.          *)
(***************************************************************************)
\* Opening minus closing parentheses among the first k characters of t.
Depth(t, k) ==
    Cardinality({i \in 1..k : t[i] = "("}) - Cardinality({i \in 1..k : t[i] = ")"})

\* A closing parenthesis without an opening one, or an opening one that is
\* never closed.
Unmatched(t) == (\E k \in 1..Len(t) : Depth(t, k) < 0) \/ Depth(t, Len(t)) # 0

\* No taxon name at all: nothing but whitespace, semicolons and matched
\* (hence empty) parentheses.
Degenerate(t) == (\A k \in 1..Len(t) : t[k] \in {" ", ";", "(", ")"}) /\ ~Unmatched(t)

IsDecimal(d) ==
    LET a == SkipIn(d, 1, Digits)
    IN  /\ a > 1
        /\ \/ a = Len(d) + 1
           \/ d[a] = "." /\ a + 1 <= Len(d) /\ SkipIn(d, a + 1, Digits) = Len(d) + 1

\* The position after [NAME] ['#' THETA] [':' LENGTH] read at p, or 0.
LabelEnd(s, p, needName) ==
    LET a == SkipUntil(s, p, NameStops)
        hasTheta == a <= Len(s) /\ s[a] = "#"
        b == IF hasTheta THEN SkipUntil(s, a + 1, ValueStops) ELSE a
        hasLength == b <= Len(s) /\ s[b] = ":"
        c == IF hasLength THEN SkipUntil(s, b + 1, ValueStops) ELSE b
    IN  IF needName /\ Trim(SubSeq(s, p, a - 1)) = <<>> THEN 0
        ELSE IF hasTheta /\ ~IsDecimal(Trim(SubSeq(s, a + 1, b - 1))) THEN 0
        ELSE IF hasLength /\ ~IsDecimal(Trim(SubSeq(s, b + 1, c - 1))) THEN 0
        ELSE c

RECURSIVE NodeEnd(_, _)
RECURSIVE GroupEnd(_, _)

\* The position after the NODE (',' NODE)* ')' read at p, or 0.
GroupEnd(s, p) ==
    LET e == NodeEnd(s, p)
    IN  IF e = 0 \/ e > Len(s) THEN 0
        ELSE IF s[e] = "," THEN GroupEnd(s, e + 1)
        ELSE IF s[e] = ")" THEN e + 1
        ELSE 0

\* The position after the NODE read at p, or 0 when there is none.
NodeEnd(s, p) ==
    LET q == SkipIn(s, p, Ws)
    IN  IF q <= Len(s) /\ s[q] = "("
        THEN LET g == GroupEnd(s, q + 1)
             IN  IF g = 0 THEN 0 ELSE LabelEnd(s, g, FALSE)
        ELSE LabelEnd(s, p, TRUE)

IsSpeciesTreeText(t) == NodeEnd(t, 1) = Len(t) + 1

\* t starts with a sample index and an arrow of its own.
HasIndexArrowPrefix(t) ==
    \E i \in 1..Len(t) :
        /\ t[i] = "→"
        /\ LET idx == Trim(SubSeq(t, 1, i - 1))
           IN  idx # <<>> /\ \A k \in 1..Len(idx) : idx[k] \in Digits

(***************************************************************************)
(* C7 (as stated): parseNewick returns null, and does not raise, for every *)
(* input whose grouping is unmatched.                                      *)
(***************************************************************************)
C7_NewickUnmatchedGivesNull ==
    (pres # Pending /\ Unmatched(text)) => pres = Null

(***************************************************************************)
(* C8 (as stated): parseGeneTree returns null, and does not raise, for     *)
(* every input whose grouping is unmatched at any nesting level.           *)
(***************************************************************************)
C8_GeneTreeUnmatchedGivesNull ==
    (gres # Pending /\ Unmatched(text)) => gres = Null

(***************************************************************************)
(* C9 (as stated): parseNewick and parseGeneTree return null for every     *)
(* empty or degenerate input: only whitespace, semicolons or empty         *)
(* parentheses, no taxon name at all.                                      *)
(***************************************************************************)
C9_DegenerateGivesNull ==
    Degenerate(text) =>
        /\ pres # Pending => pres = Null
        /\ gres # Pending => gres = Null

(***************************************************************************)
(* C10 (as stated): for every species-tree text T, index n and count k,    *)
(* parseNewick(n + '→' + T + '; ' + k) = parseNewick(T + ';'); and the     *)
(* line "1→(A:0.1,B:0.1):0.05; 3" parses to a root of branch length 0.05   *)
(* with exactly the two leaves A and B of branch length 0.1.               *)
(***************************************************************************)
ExampleParsed ==
    [name |-> <<>>, branchLength |-> 50000, theta |-> NaN,
     children |-> <<[name |-> <<"A">>, branchLength |-> 100000, theta |-> NaN, children |-> <<>>],
                    [name |-> <<"B">>, branchLength |-> 100000, theta |-> NaN, children |-> <<>>]>>]

C10_ExampleParses ==
    (wres # Pending /\ text = ExampleTree /\ wres.n = <<"1">> /\ wres.k = <<"3">>) =>
        wres.wrapped = Tree(ExampleParsed)

C10_WrappingIgnored ==
    /\ (wres # Pending /\ IsSpeciesTreeText(text)) => wres.wrapped = wres.plain
    /\ C10_ExampleParses

(***************************************************************************)
(* C10 (amended): as C10, for every species-tree text T that does not      *)
(* itself start with a sample index and an arrow (digits, then '→').       *)
(***************************************************************************)
C10_WrappingIgnoredUnlessPrefixed ==
    /\ (wres # Pending /\ IsSpeciesTreeText(text) /\ ~HasIndexArrowPrefix(text)) =>
           (wres.wrapped = wres.plain /\ wres.wrapped.kind = "tree")
    /\ C10_ExampleParses

C10_Witness ==
    /\ wres # Pending
    /\ text = ExampleTree
    /\ wres.n = <<"1">> /\ wres.k = <<"3">>
    /\ wres.wrapped = wres.plain
    /\ Len(wres.wrapped.tree.children) = 2

(***************************************************************************)
(* C11 (as stated): for every valid species-tree text T,                   *)
(* parseNewick(toNewick(parseNewick(T))) is the tree parseNewick(T): same  *)
(* topology, names, branch lengths and theta values.  The numbers of the   *)
(* model have at most six decimals, which toFixed(6) writes in full.       *)
(***************************************************************************)
C11_RoundTrip ==
    (rres # Pending /\ IsSpeciesTreeText(text)) => rres.again = pres

(***************************************************************************)
(* C11 (amended): as C11, for every valid species-tree text T that does    *)
(* not itself start with a sample index and an arrow (digits, then '→').   *)
(***************************************************************************)
C11_RoundTripUnlessPrefixed ==
    (rres # Pending /\ IsSpeciesTreeText(text) /\ ~HasIndexArrowPrefix(text)) =>
        rres.again = pres

C11_Witness ==
    /\ rres # Pending
    /\ IsSpeciesTreeText(text)
    /\ ~HasIndexArrowPrefix(text)
    /\ Len(pres.tree.children) = 2
    /\ pres.tree.theta # NaN
    /\ pres.tree.children[1].theta # NaN
    /\ pres.tree.children[1].branchLength > 0
    /\ rres.again = pres

(***************************************************************************)
(* Reference notions the properties of trees are stated with.  A node is   *)
(* addressed by its path: the child indexes that lead to it from the root. *)
(***************************************************************************)
RECURSIVE Paths(_)
Paths(node) ==
    {<<>>} \cup UNION {{<<k>> \o p : p \in Paths(node.children[k])} : k \in 1..Len(node.children)}

RECURSIVE NodeAt(_, _)
NodeAt(node, p) == IF p = <<>> THEN node ELSE NodeAt(node.children[p[1]], Tail(p))

Parent(p) == SubSeq(p, 1, Len(p) - 1)

IsTip(tree, p) == Len(NodeAt(tree, p).children) = 0

NonNegative(tree) == \A p \in Paths(tree) : NodeAt(tree, p).branchLength >= 0

\* The sum of the branch lengths on the way from the node at p down to the
\* node at p \o q.
RECURSIVE Below(_, _)
Below(node, q) ==
    IF q = <<>> THEN 0
    ELSE node.children[q[1]].branchLength + Below(node.children[q[1]], Tail(q))

\* Every tip is equally far from the root.
Ultrametric(tree) ==
    \A p, q \in {t \in Paths(tree) : IsTip(tree, t)} : Below(tree, p) = Below(tree, q)

\* Leaf age 0; internal age = first child's age + that child's branch length.
RECURSIVE AgeOf(_)
AgeOf(node) ==
    IF Len(node.children) = 0 THEN 0
    ELSE AgeOf(node.children[1]) + node.children[1].branchLength

\* The place of the node at p when the nodes are listed children first.
RECURSIVE PostIndex(_, _)
PostIndex(node, p) ==
    IF p = <<>> THEN Cardinality(Paths(node))
    ELSE Cardinality({q \in Paths(node) : q # <<>> /\ q[1] < p[1]})
         + PostIndex(node.children[p[1]], Tail(p))

\* The internal nodes of a gene tree, children first.
RECURSIVE InternalPostOrder(_)
InternalPostOrder(node) ==
    IF Len(node.children) = 0 THEN <<>>
    ELSE Flatten([k \in 1..Len(node.children) |-> InternalPostOrder(node.children[k])])
         \o <<node>>

\* A render went through with a gene tree that has an internal node.
Embedded == drawn = "drawn" /\ queries # <<>>

GeneRoot == parseGeneTree(gline, appImap).tree.root

\* The containment calls of the last render that found no population.
Violations == {k \in 1..Len(queries) : queries[k].pop = <<>>}

C12Species == <<"(", "A", ":", "1", ",", "B", ":", "1", ")", ":", "0", ";">>

C12Gene ==
    <<"(", "A", "^", "a", "1", ":", "0", ".", "5", ",", "B", "^", "b", "1", ":", "0", ".", "5", ")",
      ":", "0", ";", "[", "T", "H", "=", "0", ".", "5", ",", "T", "L", "=", "1", ".", "0", "]">>

(***************************************************************************)
(* C12 (as stated): the species tree "(A:1,B:1):0;" with the gene tree     *)
(* "(A^a1:0.5,B^b1:0.5):0;[TH=0.5,TL=1.0]" embeds with no containment      *)
(* violation, and the gene root's coalescence age is 0.5.                  *)
(***************************************************************************)
C12_ExampleEmbedsCleanly ==
    (Embedded /\ text = C12Species /\ gline = C12Gene) =>
        (Violations = {} /\ queries[Len(queries)].time = 500000)

(***************************************************************************)
(* C12 (amended): that pair embeds with exactly one containment violation, *)
(* at the gene root, whose coalescence age is 0.5: A and B join at 0.5,    *)
(* before the population that holds both begins at their divergence, 1.    *)
(***************************************************************************)
C12_ExampleViolatesOnce ==
    (Embedded /\ text = C12Species /\ gline = C12Gene) =>
        /\ Len(queries) = 1
        /\ Violations = {1}
        /\ queries[1].species = {<<"A">>, <<"B">>}
        /\ queries[1].time = 500000

C12_Witness ==
    /\ Embedded
    /\ text = C12Species
    /\ gline = C12Gene
    /\ Violations = {1}
    /\ Len(populations) = 4

(***************************************************************************)
(* C13: when the only internal node of the gene tree is a root that joins  *)
(* two leaves of non-sister species of the species tree at an age smaller  *)
(* than the divergence time of those species, the embedding reports        *)
(* exactly one containment violation.  The divergence time is the larger   *)
(* distance of the two tips from their last common ancestor.               *)
(***************************************************************************)
TipPaths(tree, x) == {p \in Paths(tree) : IsTip(tree, p) /\ NodeAt(tree, p).name = x}

CommonAncestor(p, q) ==
    LET n == CHOOSE n \in 0..Min(Len(p), Len(q)) :
                 /\ SubSeq(p, 1, n) = SubSeq(q, 1, n)
                 /\ \A m \in (n + 1)..Min(Len(p), Len(q)) : SubSeq(p, 1, m) # SubSeq(q, 1, m)
    IN  SubSeq(p, 1, n)

DivergenceTime(tree, p, q) ==
    LET c == CommonAncestor(p, q)
        under == NodeAt(tree, c)
    IN  Max(Below(under, SubSeq(p, Len(c) + 1, Len(p))), Below(under, SubSeq(q, Len(c) + 1, Len(q))))

C13_Case ==
    /\ Embedded
    /\ NonNegative(pres.tree)
    /\ Len(GeneRoot.children) = 2
    /\ \A k \in 1..2 : Len(GeneRoot.children[k].children) = 0
    /\ LET x == LeafSpecies(GeneRoot.children[1], appImap)
           y == LeafSpecies(GeneRoot.children[2], appImap)
       IN  /\ x # y
           /\ Cardinality(TipPaths(pres.tree, x)) = 1
           /\ Cardinality(TipPaths(pres.tree, y)) = 1
           /\ LET p == CHOOSE p \in TipPaths(pres.tree, x) : TRUE
                  q == CHOOSE q \in TipPaths(pres.tree, y) : TRUE
              IN  /\ Parent(p) # Parent(q)
                  /\ queries[1].time < DivergenceTime(pres.tree, p, q)

\* C13: in that case exactly one containment call finds no population.
C13_NonSisterViolatesOnce == C13_Case => Cardinality(Violations) = 1

C13_Witness == C13_Case /\ Violations = {1} /\ Len(populations) >= 5

(***************************************************************************)
(* C14: findPopulationForSpecies(taxonSet, time) returns an interval with  *)
(* startTime <= time <= endTime whose species hold every member of         *)
(* taxonSet and whose species set is as small as that of any such          *)
(* interval; it returns null exactly when there is no such interval.       *)
(***************************************************************************)
Qualifying(pops, speciesSet, time) ==
    {k \in 1..Len(pops) :
        /\ pops[k].startTime <= time
        /\ time <= pops[k].endTime
        /\ speciesSet \subseteq pops[k].species}

SmallestQualifying(pops, speciesSet, time, pop) ==
    LET Q == Qualifying(pops, speciesSet, time)
    IN  IF Q = {} THEN pop = <<>>
        ELSE /\ pop # <<>>
             /\ \E k \in Q : /\ pops[k] = pop[1]
                             /\ \A j \in Q : Cardinality(pops[k].species) <= Cardinality(pops[j].species)

\* C14: every findPopulationForSpecies call, made on its own or by a render,
\* returned a smallest qualifying interval, or null when none qualifies.
C14_SmallestContainingInterval ==
    /\ (drawn = "drawn" /\ found.called) =>
           SmallestQualifying(populations, found.species, found.time, found.pop)
    /\ drawn = "drawn" =>
           \A k \in 1..Len(queries) :
               SmallestQualifying(populations, queries[k].species, queries[k].time, queries[k].pop)

C14_Witness ==
    /\ drawn = "drawn"
    /\ found.called
    /\ found.pop # <<>>
    /\ \E j, k \in Qualifying(populations, found.species, found.time) :
           Cardinality(populations[j].species) < Cardinality(populations[k].species)

(***************************************************************************)
(* C15: on the intervals built from a species tree with non-negative       *)
(* branch lengths, the query ({x}, 0) for a tip x returns the interval of  *)
(* a leaf named x, whose species are exactly {x}.                          *)
(***************************************************************************)
C15_Case ==
    /\ drawn = "drawn"
    /\ found.called
    /\ found.time = 0
    /\ NonNegative(pres.tree)
    /\ \E x \in Taxa : found.species = {x} /\ TipPaths(pres.tree, x) # {}

\* C15: the query ({x}, 0) returns the interval pushed for a leaf named x.
C15_TipFoundAtPresent ==
    C15_Case =>
        /\ found.pop # <<>>
        /\ found.pop[1].species = found.species
        /\ \E x \in found.species : \E p \in TipPaths(pres.tree, x) :
               populations[PostIndex(pres.tree, p)] = found.pop[1]

C15_Witness ==
    /\ C15_Case
    /\ Cardinality(Qualifying(populations, found.species, 0)) = 3
    /\ found.pop[1].name = <<"A">>

(***************************************************************************)
(* C16 (as stated): for every non-root node of a parsed tree, the age of   *)
(* the node is the age of its parent minus the node's branch length.  In   *)
(* a gene tree the age is getGeneNodeAge; in a species tree it is 0 for a  *)
(* leaf and the startTime of the node's interval otherwise.                *)
(***************************************************************************)
SpeciesAge(p) ==
    IF IsTip(pres.tree, p) THEN 0 ELSE populations[PostIndex(pres.tree, p)].startTime

SpeciesAgeStep(p) == SpeciesAge(p) = SpeciesAge(Parent(p)) - NodeAt(pres.tree, p).branchLength

GeneAgeStep(g, p) ==
    getGeneNodeAge(NodeAt(g, p)) = getGeneNodeAge(NodeAt(g, Parent(p))) - NodeAt(g, p).branchLength

\* C16 (as stated): the equation holds at every non-root node.
C16_AgeStepEverywhere ==
    /\ drawn = "drawn" => \A p \in Paths(pres.tree) \ {<<>>} : SpeciesAgeStep(p)
    /\ geneTree # <<>> => \A p \in Paths(geneTree[1].root) \ {<<>>} : GeneAgeStep(geneTree[1].root, p)

(***************************************************************************)
(* C16 (amended): the same equation holds for every non-root node of an    *)
(* ultrametric tree (every tip equally far from the root).  On any parsed  *)
(* tree it holds for the first child of every gene-tree node and for every *)
(* internal non-root node of the species tree.                             *)
(***************************************************************************)
C16_AgeStepWhenUltrametric ==
    /\ drawn = "drawn" =>
           \A p \in Paths(pres.tree) \ {<<>>} :
               (Ultrametric(pres.tree) \/ ~IsTip(pres.tree, p)) => SpeciesAgeStep(p)
    /\ geneTree # <<>> =>
           \A p \in Paths(geneTree[1].root) \ {<<>>} :
               (Ultrametric(geneTree[1].root) \/ p[Len(p)] = 1) => GeneAgeStep(geneTree[1].root, p)

C16_Witness ==
    /\ drawn = "drawn"
    /\ Ultrametric(pres.tree)
    /\ Len(populations) >= 5
    /\ geneTree # <<>>
    /\ ~Ultrametric(geneTree[1].root)
    /\ \A p \in Paths(pres.tree) \ {<<>>} : SpeciesAgeStep(p)

ReadFails ==
    \/ got'.rejected /\ got' # got
    \/ ipc' = "failed" /\ ipc # "failed"

C19_NoPartialIndexObserved ==
    (got.at = "reading" /\ ~got.rejected) =>
        got.r = getTree(RefOffsets(file, skipFirstLine), file, fileSize, got.r.index)

(***************************************************************************)
(* C20 (as stated): a gene-tree leaf without caret tag and without Imap    *)
(* entry is left out of the containment checks: whenever the resolved      *)
(* leaves under an internal node have a population at the node's age, the  *)
(* containment call made for the node finds one.                           *)
(***************************************************************************)
Unresolved(leaf) == indexOf(leaf.name, "^") = 0 /\ leaf.name \notin DOMAIN appImap.map

ResolvedUnder(node) ==
    {LeafSpecies(NodeAt(node, p), appImap) :
        p \in {t \in Paths(node) : IsTip(node, t) /\ ~Unresolved(NodeAt(node, t))}}

\* C20 (as stated): the unresolved leaves alone never make a containment
\* call come back empty.
C20_UnresolvedLeafExcluded ==
    Embedded =>
        \A k \in 1..Len(queries) :
            LET node == InternalPostOrder(GeneRoot)[k]
            IN  findPopulationForSpecies(populations, ResolvedUnder(node), queries[k].time) # <<>>
                    => queries[k].pop # <<>>


(***************************************************************************)
(* Reference notions for the population intervals.  drawSpeciesTubes       *)
(* pushes one interval per node, children first, so the interval of the    *)
(* node at p is the PostIndex-th population of the render.                 *)
(***************************************************************************)
TubeOf(p) == populations[PostIndex(pres.tree, p)]

LeafNamesBelow(node) == LET leaves == getLeaves(node) IN {leaves[i] : i \in 1..Len(leaves)}

NodeCount == Cardinality(Paths(pres.tree))

IntervalStartsAtAge(p) == TubeOf(p).startTime = AgeOf(NodeAt(pres.tree, p))

IntervalSpansBranch(p) ==
    TubeOf(p).endTime = TubeOf(p).startTime + NodeAt(pres.tree, p).branchLength

IntervalHoldsLeavesBelow(p) == TubeOf(p).species = LeafNamesBelow(NodeAt(pres.tree, p))

\* The paths of the nodes, children first: the order drawSpeciesTubes pushes
\* the intervals in.
RECURSIVE PostOrderPaths(_)
PostOrderPaths(node) ==
    Flatten([k \in 1..Len(node.children) |->
                LET below == PostOrderPaths(node.children[k])
                IN  [i \in 1..Len(below) |-> <<k>> \o below[i]]])
    \o <<<<>>>>

(***************************************************************************)
(* C22 (as stated): for every node of the species tree, ultrametric or     *)
(* not, the render holds exactly one interval with startTime = the age at  *)
(* the node, endTime = startTime + the node's branch length and            *)
(* membership = the leaf names beneath the node.                           *)
(***************************************************************************)
C22_IntervalPerNode ==
    drawn = "drawn" =>
        /\ Len(populations) \in {NodeCount, NodeCount + 1}
        /\ \A p \in Paths(pres.tree) :
               IntervalStartsAtAge(p) /\ IntervalSpansBranch(p) /\ IntervalHoldsLeavesBelow(p)

(***************************************************************************)
(* C22 (amended): every node yields exactly one interval whose membership  *)
(* is the set of leaf names beneath it.  For an ultrametric tree the       *)
(* interval starts at the age of the node and ends one branch length       *)
(* later.  For any tree an internal node's interval ends one branch length *)
(* after it starts, and a leaf's interval runs from 0 to the start of its  *)
(* parent's interval.                                                      *)
(***************************************************************************)
C22_IntervalPerNodeWhenUltrametric ==
    drawn = "drawn" =>
        LET tree == pres.tree
            order == PostOrderPaths(tree)
            ultrametric == Ultrametric(tree)
        IN  /\ Len(populations) \in {Len(order), Len(order) + 1}
            /\ \A i \in 1..Len(order) :
                   LET p == order[i]
                       node == NodeAt(tree, p)
                       tube == populations[i]
                   IN  /\ tube.species = LeafNamesBelow(node)
                       /\ ultrametric =>
                              /\ tube.startTime = AgeOf(node)
                              /\ tube.endTime = tube.startTime + node.branchLength
                       /\ Len(node.children) # 0 =>
                              tube.endTime = tube.startTime + node.branchLength
                       /\ (Len(node.children) = 0 /\ p # <<>>) =>
                              /\ tube.startTime = 0
                              /\ \E j \in 1..Len(order) :
                                     /\ order[j] = Parent(p)
                                     /\ tube.endTime = populations[j].startTime

C22_Witness ==
    /\ drawn = "drawn"
    /\ Ultrametric(pres.tree)
    /\ NodeCount = 5
    /\ Len(populations) = 6
    /\ \E p \in Paths(pres.tree) :
           /\ p # <<>>
           /\ ~IsTip(pres.tree, p)
           /\ TubeOf(p).startTime > 0
           /\ TubeOf(p).endTime > TubeOf(p).startTime
           /\ Cardinality(TubeOf(p).species) = 2


(***************************************************************************)
(* C23 (as stated): the membership sets of the population intervals built  *)
(* from any parsed species tree form a laminar family: any two of them are *)
(* disjoint or one contains the other.                                     *)
(***************************************************************************)
Laminar(pops) ==
    \A i, j \in 1..Len(pops) :
        \/ pops[i].species \cap pops[j].species = {}
        \/ pops[i].species \subseteq pops[j].species
        \/ pops[j].species \subseteq pops[i].species

DistinctLeafNames(tree) ==
    \A i, j \in 1..Len(getLeaves(tree)) : i # j => getLeaves(tree)[i] # getLeaves(tree)[j]

C23_Laminar == drawn = "drawn" => Laminar(populations)

(***************************************************************************)
(* C23 (amended): the membership sets of the population intervals built    *)
(* from a parsed species tree whose leaf names are pairwise distinct form  *)
(* a laminar family.                                                       *)
(***************************************************************************)
C23_LaminarWhenLeafNamesDistinct ==
    (drawn = "drawn" /\ DistinctLeafNames(pres.tree)) => Laminar(populations)

C23_Witness ==
    /\ drawn = "drawn"
    /\ DistinctLeafNames(pres.tree)
    /\ Len(populations) = 6
    /\ \E i, j \in 1..Len(populations) :
           /\ populations[i].species \cap populations[j].species = {}
           /\ Cardinality(populations[i].species) = 2
    /\ \E i, j \in 1..Len(populations) :
           /\ populations[i].species \subseteq populations[j].species
           /\ populations[i].species # populations[j].species
           /\ Cardinality(populations[i].species) = 2

(***************************************************************************)
(* C24: a containment violation never aborts embedding.  A render that     *)
(* went through with a gene tree queried every internal node, children     *)
(* before parent, each with the species under the node and its coalescence *)
(* age, and the calls that came back empty are exactly those for which no  *)
(* population qualifies.                                                   *)
(***************************************************************************)
SpeciesUnder(node) ==
    {LeafSpecies(NodeAt(node, p), appImap) : p \in {t \in Paths(node) : IsTip(node, t)}}

C24_ViolationsNeverAbort ==
    (drawn = "drawn" /\ geneTree # <<>>) =>
        LET nodes == InternalPostOrder(geneTree[1].root)
        IN  /\ Len(queries) = Len(nodes)
            /\ \A k \in 1..Len(nodes) :
                   /\ queries[k].species = SpeciesUnder(nodes[k])
                   /\ queries[k].time = AgeOf(nodes[k])
                   /\ queries[k].pop = <<>>
                          <=> Qualifying(populations, SpeciesUnder(nodes[k]), AgeOf(nodes[k])) = {}
            /\ Cardinality(Violations)
                   = Cardinality({k \in 1..Len(nodes) :
                         Qualifying(populations, SpeciesUnder(nodes[k]), AgeOf(nodes[k])) = {}})

C24_Witness ==
    /\ drawn = "drawn"
    /\ geneTree # <<>>
    /\ Len(queries) = 2
    /\ queries[1].pop = <<>>
    /\ queries[2].pop # <<>>
    /\ queries[1].species \subseteq queries[2].species

(***************************************************************************)
(* C25: for a leaf tag P^Q the parser takes Q for the species and P for    *)
(* the individual exactly when Q has one or two characters, all of them    *)
(* upper-case letters; otherwise P is the species and Q the individual.    *)
(* The embedder uses the species the parser derived: the species set of    *)
(* every containment call is made of the parser's species of the tagged    *)
(* leaves under the node.                                                  *)
(***************************************************************************)
TagFirst(name) == SubSeq(name, 1, indexOf(name, "^") - 1)

TagSecond(name) == SubSeq(name, indexOf(name, "^") + 1, Len(name))

ShortUpperAlpha(q) ==
    /\ Len(q) \in {1, 2}
    /\ \A k \in 1..Len(q) : \E i \in 1..Len(UpperLetters) : q[k] = UpperLetters[i]

Tagged(leaf) == indexOf(leaf.name, "^") # 0

TipsOf(node) == {NodeAt(node, p) : p \in {t \in Paths(node) : IsTip(node, t)}}

C25_CaretTagRule ==
    /\ geneTree # <<>> =>
           \A leaf \in {t \in TipsOf(geneTree[1].root) : Tagged(t)} :
               IF ShortUpperAlpha(TagSecond(leaf.name))
               THEN leaf.species = <<TagSecond(leaf.name)>> /\ leaf.individual = <<TagFirst(leaf.name)>>
               ELSE leaf.species = <<TagFirst(leaf.name)>> /\ leaf.individual = <<TagSecond(leaf.name)>>
    /\ (drawn = "drawn" /\ geneTree # <<>>) =>
           \A k \in 1..Len(queries) :
               LET tips == TipsOf(InternalPostOrder(geneTree[1].root)[k])
               IN  /\ \A leaf \in {t \in tips : Tagged(t)} : leaf.species[1] \in queries[k].species
                   /\ (\A leaf \in tips : Tagged(leaf))
                          => queries[k].species = {leaf.species[1] : leaf \in tips}

C25_Witness ==
    /\ drawn = "drawn"
    /\ geneTree # <<>>
    /\ Len(queries) = 1
    /\ queries[1].species = {<<"A">>, <<"A", "B">>}
    /\ \E leaf \in TipsOf(geneTree[1].root) :
           leaf.name = <<"A", "^", "B", "C", "D">> /\ leaf.species = <<<<"A">>>>
    /\ \E leaf \in TipsOf(geneTree[1].root) :
           leaf.name = <<"b", "^", "A", "B">> /\ leaf.species = <<<<"A", "B">>>>

(***************************************************************************)
(* C26: within one render pass every request for the same population name  *)
(* is answered with the same slot, and every pass starts from an empty     *)
(* table with the counter at 0: the table a pass leaves is the one its own *)
(* requests build from scratch, whatever the pass before left.             *)
(***************************************************************************)
NamesBefore(i) == {colorRequests[j].name : j \in 1..(i - 1)}

C26_ColourTablePerPass ==
    /\ \A i, j \in 1..Len(colorRequests) :
           colorRequests[i].name = colorRequests[j].name
               => colorRequests[i].slot = colorRequests[j].slot
    /\ \A i \in 1..Len(colorRequests) :
           colorRequests[i].name \notin NamesBefore(i)
               => colorRequests[i].slot = Cardinality(NamesBefore(i)) % PopulationColorsLength
    /\ DOMAIN populationColorIndex = NamesBefore(Len(colorRequests) + 1)
    /\ \A i \in 1..Len(colorRequests) :
           populationColorIndex[colorRequests[i].name] = colorRequests[i].slot
    /\ nextColorIndex = Cardinality(DOMAIN populationColorIndex) % PopulationColorsLength

C26_Witness ==
    /\ drawn = "drawn"
    /\ Len(colorRequests) = 10
    /\ colorRequests[1].name = colorRequests[10].name
    /\ colorRequests[9].name # colorRequests[1].name
    /\ colorRequests[9].slot = 0
    /\ nextColorIndex = 1


(***************************************************************************)
(* C27 (as stated): parseNewick terminates on every finite text, with a    *)
(* tree or with null, a text with a ';' or another delimiter inside a      *)
(* parenthesised group included: no call is left in the child loop of      *)
(* parseNode.                                                              *)
(***************************************************************************)
Returned(res) == res = Null \/ res.kind = "tree"

C27_ParseNewickTerminates ==
    /\ pres # Pending => Returned(pres)
    /\ wres # Pending => Returned(wres.wrapped) /\ Returned(wres.plain)
    /\ rres # Pending => Returned(rres.again)


(***************************************************************************)
(* Reference notions for the application.                                  *)
(***************************************************************************)
\* A species-tree file with trees is loaded and handleFileSelect is through.
Loaded ==
    /\ load.pc = "idle"
    /\ indexer # <<>>
    /\ indexer[1].built = "indexed"
    /\ treeCountOf(indexer[1]) > 0

\* The sample the current index points at, parsed.
CurrentSample == parseNewick(treeOf(indexer[1], currentTreeIndex))

\* The gene tree of the current locus for the current index, or null.
CurrentGeneSample ==
    LET lines == geneTreeIndexers[currentLocusIndex + 1]
    IN  IF currentTreeIndex < Len(lines)
        THEN LET g == parseGeneTree(Trim(lines[currentTreeIndex + 1]), EmptyImap)
             IN  IF g.kind = "tree" THEN <<g.tree>> ELSE <<>>
        ELSE <<>>

\* This step calls displayCurrentTree(): a navigation handler has moved the
\* index, or handleFileSelect has reached its end.
DisplayIssued ==
    \/ currentTreeIndex' # currentTreeIndex
    \/ load.pc = "sampling" /\ load'.pc = "idle"

(***************************************************************************)
(* C21 (as stated): when loading a species-tree file fails, during         *)
(* indexing or during depth sampling, with nothing else having acted since *)
(* the load began, the indexer, currentTree, currentTreeIndex and          *)
(* maxTreeDepth are the ones in use before the load.                       *)
(***************************************************************************)
C21_FailedLoadKeepsState ==
    (load.pc = "failed" /\ load.quiet) =>
        /\ indexer = load.before.indexer
        /\ currentTree = parseNewick(load.before.currentNewick)
        /\ currentTreeIndex = load.before.currentTreeIndex
        /\ maxTreeDepth = load.before.maxTreeDepth

(***************************************************************************)
(* C28 (as stated): with a file loaded and no retrieval pending, the       *)
(* displayed tree (currentTree) is the parse of the line at                *)
(* currentTreeIndex, whatever the order in which the retrievals of the     *)
(* navigation events came back.                                            *)
(***************************************************************************)
C28_DisplayedTreeIsCurrent ==
    (Loaded /\ pending = {}) => currentTree = CurrentSample

(***************************************************************************)
(* C29 (as stated): in embedded view, with a file and loci loaded and no   *)
(* retrieval pending, the species tree displayed and the gene tree held by *)
(* the embedded renderer both come from the sample at currentTreeIndex,    *)
(* the gene tree from the current locus, or the gene tree is null when the *)
(* locus has no such sample.                                               *)
(***************************************************************************)
C29_GeneTreeOfDisplayedSample ==
    (Loaded /\ pending = {} /\ currentRendererName = "embedded" /\ geneTreeIndexers # <<>>) =>
        /\ currentTree = CurrentSample
        /\ geneTree = CurrentGeneSample

(***************************************************************************)
(* C30 (as stated): whenever displayCurrentTree() is called with an        *)
(* indexer installed, currentTreeIndex lies in [0, getTreeCount() - 1] of  *)
(* that indexer.                                                           *)
(***************************************************************************)
C30_DisplayedIndexInRange ==
    [][(DisplayIssued /\ indexer' # <<>>) =>
           (0 <= currentTreeIndex' /\ currentTreeIndex' <= treeCountOf(indexer'[1]) - 1)]_vars

====
